---- MODULE Spec2Model ----
(***************************************************************************)
(* createGfmFixtures (lib/index.js): markdown sources are discovered, the  *)
(* ones to generate are sent to a gist (file-mode sources as gist files,   *)
(* comment-mode sources as comments), the rendered page is fetched, the    *)
(* gist is deleted, one fragment per source is extracted and written.      *)
(*                                                                         *)
(* The run is one asynchronous function: every `await` on a remote call is *)
(* a request action followed by a response action; the code between two    *)
(* awaits is synchronous.  The remote service and the file system are the  *)
(* environment: their answers are drawn from bounded sets.                 *)
(* options.controlPictures and options.toHtml are left at their defaults.  *)
(***************************************************************************)
EXTENDS Integers, Sequences, FiniteSets, TLC

\* Number of markdown files in the fixture folder's pool.
NumFiles == 5
\* Number of times createGfmFixtures is called on the folder.
MaxRuns == 2

\* An environment variable that is not set.
Unset == "<unset>"

\* An optional value (a JS value that may be undefined or null) is a sequence
\* of length at most one.
None == <<>>

Some(v) == <<v>>

IsSome(o) == Len(o) > 0

Get(o) == o[1]

---------------------------------------------------------------------------
(* Generic helpers.                                                        *)

Range(s) == {s[i] : i \in DOMAIN s}

Last(s) == s[Len(s)]

\* The subsequence of s at the positions satisfying Test, in order.
Filter(s, Test(_)) ==
  LET F[i \in 0..Len(s)] ==
        IF i = 0 THEN <<>>
        ELSE IF Test(s[i]) THEN Append(F[i - 1], s[i]) ELSE F[i - 1]
  IN F[Len(s)]

\* All orderings of the sequence s.
Permutations_(s) ==
  {p \in [DOMAIN s -> DOMAIN s] : \A i, j \in DOMAIN s : p[i] = p[j] => i = j}

Permuted(s, p) == [i \in DOMAIN s |-> s[p[i]]]

\* s without its i-th element.
RemoveAt(s, i) == SubSeq(s, 1, i - 1) \o SubSeq(s, i + 1, Len(s))

\* JS truthiness of an environment variable (a string or unset).
Truthy(v) == v # Unset /\ v # ""

---------------------------------------------------------------------------
(* Strings that the code builds or parses are sequences of characters.     *)

Digits == <<"0", "1", "2", "3", "4", "5", "6", "7", "8", "9">>

IsDigit(c) == c \in Range(Digits)

DigitValue(c) == (CHOOSE i \in DOMAIN Digits : Digits[i] = c) - 1

IsSpace(c) == c \in {" ", "\n", "\t"}

RECURSIVE NumberToString(_)
\* 'readme-' + fileInputIndex: decimal digits of a non-negative integer.
NumberToString(n) ==
  IF n < 10 THEN <<Digits[n + 1]>>
  ELSE NumberToString(n \div 10) \o <<Digits[(n % 10) + 1]>>

RECURSIVE ParseInt(_)
\* Number.parseInt(digits, 10) on a non-empty run of digits.
ParseInt(ds) ==
  IF Len(ds) = 0 THEN 0
  ELSE 10 * ParseInt(SubSeq(ds, 1, Len(ds) - 1)) + DigitValue(Last(ds))

RECURSIVE TrimStart(_)
TrimStart(s) ==
  IF Len(s) > 0 /\ IsSpace(s[1]) THEN TrimStart(Tail(s)) ELSE s

RECURSIVE TrimEnd(_)
TrimEnd(s) ==
  IF Len(s) > 0 /\ IsSpace(Last(s)) THEN TrimEnd(SubSeq(s, 1, Len(s) - 1)) ELSE s

\* String.prototype.trim.
Trim(s) == TrimEnd(TrimStart(s))

ReadmePrefix == <<"r", "e", "a", "d", "m", "e", "-">>

MdSuffix == <<".", "m", "d">>

\* 'readme-' + fileInputIndex + '.md'
SlotName(k) == ReadmePrefix \o NumberToString(k) \o MdSuffix

\* /^\s*readme-(\d+)\.md\s*$/.exec(fileName): the captured digits, if any.
MatchReadme(fileName) ==
  LET t == Trim(fileName)
      n == Len(t)
      lo == Len(ReadmePrefix)
      hi == n - Len(MdSuffix)
      ds == SubSeq(t, lo + 1, hi)
  IN IF /\ hi > lo
        /\ SubSeq(t, 1, lo) = ReadmePrefix
        /\ SubSeq(t, hi + 1, n) = MdSuffix
        /\ \A i \in DOMAIN ds : IsDigit(ds[i])
     THEN Some(ds)
     ELSE None

---------------------------------------------------------------------------
(* The fixture folder.  A file name is its dot-separated segments; the     *)
(* glob `**/*.md` only finds names whose last segment is `md`.             *)

NameTable ==
  << <<"a", "md">>,
     <<"b", "comment", "md">>,
     <<"c", "offline", "comment", "md">>,
     <<"comment", "d", "md">>,
     <<"e", "comment", "md">>,
     <<"offline", "md">>,
     <<"g", "file", "md">>,
     <<"h", "comment", "offline", "md">> >>

\* The name of the n-th file of the pool.
FileName(n) == NameTable[n]

Paths == 1..NumFiles

\* replaceExt(relative, '.html')
ReplaceExt(name, ext) == Append(SubSeq(name, 1, Len(name) - 1), ext)

\* The output path of the n-th file of the pool.
OutputUrl(n) == ReplaceExt(FileName(n), "html")

OutputUrls == {OutputUrl(n) : n \in Paths}

\* path.basename(relative, path.extname(relative)).split('.')
Parts(name) == SubSeq(name, 1, Len(name) - 1)

\* parts.includes('offline')
IsOffline(name) == \E i \in DOMAIN Parts(name) : Parts(name)[i] = "offline"

\* The mode where any segment of the stem may name it.
ModeOf_AnySegment(name) ==
  IF \E i \in DOMAIN Parts(name) : Parts(name)[i] = "comment"
  THEN "comment" ELSE "file"

\* const last = parts.pop(); mode = last === 'comment' ? last : 'file'
ModeOf(name) == IF Last(Parts(name)) = "comment" THEN "comment" ELSE "file"

\* String(await fs.readFile(inputUrl)): every source has its own content.
Content(n) == <<"md", n>>

\* What the remote service renders for a content submitted in a mode.
Render(mode, content) == <<"html", mode, content>>

\* A whitespace-only text node.
WS == <<"text", "\n">>

IsWhitespace(node) ==
  /\ Len(node) > 0
  /\ node[1] = "text"
  /\ \A i \in 2..Len(node) : IsSpace(node[i])

---------------------------------------------------------------------------
VARIABLES
  numFound,        \* the folder holds the first numFound files of the pool
  outputExists,    \* per output path: does the file exist on disk
  mtime,           \* per output path: number of times it was written
  run,             \* number of calls of createGfmFixtures so far
  pc,              \* position of the current call
  error,           \* message of the error the call was rejected with
  UPDATE,          \* process.env.UPDATE as read by the current call
  allInput,        \* allInput
  input,           \* input: the render batch
  files,           \* files: the gist payload, entries in insertion order
  filenameToIndex, \* filenameToIndex
  gistResult,      \* gistResult.data
  ghToken,         \* ghToken, once line 563 has read the environment
  index,           \* index (of the loop that is running)
  inFlight,        \* remote requests issued and not yet answered
  events,          \* remote requests and file writes of the call, in order
  document,        \* the parsed page: fileNodes and commentNodes
  fileResults,     \* fileResults (a sparse array)
  commentResults,  \* commentResults
  fileIndex,       \* fileIndex of the write loop
  commentIndex,    \* commentIndex of the write loop
  pending,         \* the promises of the running Promise.all not yet settled
  values,          \* the result array of the running Promise.all
  keep,            \* settings.keep: the toggles it holds
  transforms,      \* transforms
  html,            \* result: the rendering of the source that is cleaned
  tree,            \* tree
  cleaned,         \* clean: the string given to fs.writeFile
  cpc              \* position in the cleaning of one source

fsVars == <<numFound, outputExists, mtime>>

intakeVars == <<UPDATE, allInput, input>>

gistVars == <<files, filenameToIndex, gistResult, ghToken>>

extractVars == <<document, fileResults, commentResults>>

writeVars == <<fileIndex, commentIndex>>

taskVars == <<pending, values>>

cleanVars == <<keep, transforms, html, tree, cleaned, cpc>>

vars ==
  <<numFound, outputExists, mtime, run, pc, error, UPDATE, allInput, input,
    files, filenameToIndex, gistResult, ghToken, index, inFlight, events,
    document, fileResults, commentResults, fileIndex, commentIndex, pending,
    values, keep, transforms, html, tree, cleaned, cpc>>

\* No Promise.all is running.
TasksIdle ==
  /\ pending = {}
  /\ values = <<>>

\* No source is being cleaned.
CleanIdle ==
  /\ keep = <<>>
  /\ transforms = <<>>
  /\ html = <<>>
  /\ tree = [nodes |-> <<>>, error |-> ""]
  /\ cleaned = None
  /\ cpc = "idle"

Init ==
  /\ numFound \in 0..NumFiles
  /\ outputExists \in [OutputUrls -> BOOLEAN]
  /\ \A n \in Paths : n > numFound => ~outputExists[OutputUrl(n)]
  /\ mtime = [o \in OutputUrls |-> 0]
  /\ run = 0
  /\ pc = "idle"
  /\ error = ""
  /\ UPDATE = Unset
  /\ allInput = <<>>
  /\ input = <<>>
  /\ files = <<>>
  /\ filenameToIndex = <<>>
  /\ gistResult = None
  /\ ghToken = None
  /\ index = -1
  /\ inFlight = {}
  /\ events = <<>>
  /\ document = None
  /\ fileResults = <<>>
  /\ commentResults = <<>>
  /\ fileIndex = -1
  /\ commentIndex = -1
  /\ TasksIdle
  /\ CleanIdle

---------------------------------------------------------------------------
(* A call begins.                                                          *)

StartRun ==
  /\ pc \in {"idle", "done", "failed"}
  /\ run < MaxRuns
  /\ run' = run + 1
  /\ pc' = "intake"
  /\ error' = ""
  /\ UPDATE' = Unset
  /\ allInput' = <<>>
  /\ input' = <<>>
  /\ files' = <<>>
  /\ filenameToIndex' = <<>>
  /\ gistResult' = None
  /\ ghToken' = None
  /\ index' = -1
  /\ inFlight' = {}
  /\ events' = <<>>
  /\ document' = None
  /\ fileResults' = <<>>
  /\ commentResults' = <<>>
  /\ fileIndex' = -1
  /\ commentIndex' = -1
  /\ pending' = {}
  /\ values' = <<>>
  /\ UNCHANGED <<cleanVars, fsVars>>

---------------------------------------------------------------------------
(* Source intake: lines 510-557.                                           *)

UpdateValues == {Unset, "", "1"}

\* Generate without the offline test.
Generate_OfflineIgnored(name, update, exists) ==
  IF ~Truthy(update) THEN ~exists ELSE TRUE

\* Generate with UPDATE tested for being set instead of being truthy.
Generate_UpdateIfSet(name, update, exists) ==
  IF IsOffline(name) THEN FALSE
  ELSE IF update = Unset THEN ~exists
  ELSE TRUE

\* Generate without the test for an existing output.
Generate_ExistingIgnored(name, update, exists) ==
  IF IsOffline(name) THEN FALSE ELSE TRUE

\* The generate flag of one discovered file.
Generate(name, update, exists) ==
  IF IsOffline(name) THEN FALSE
  ELSE IF ~Truthy(update) THEN ~exists
  ELSE TRUE

\* One element of allInput.
InputInfo(n, update, exists) ==
  [generate |-> Generate(FileName(n), update, exists[OutputUrl(n)]),
   inputUrl |-> n,
   mode |-> ModeOf(FileName(n)),
   outputUrl |-> OutputUrl(n)]

IsGenerate(d) == d.generate

\* allInput.filter(d => d.generate).map(read): the batch, in allInput order.
ReadInput(all) ==
  LET kept == Filter(all, IsGenerate)
  IN [i \in DOMAIN kept |->
        [inputUrl |-> kept[i].inputUrl,
         mode |-> kept[i].mode,
         outputUrl |-> kept[i].outputUrl,
         value |-> Content(kept[i].inputUrl)]]

\* Intake without the early return of lines 555-557.
Intake_NoEarlyExit ==
  /\ pc = "intake"
  /\ \E update \in UpdateValues, readOk \in BOOLEAN :
       LET all == [n \in 1..numFound |-> InputInfo(n, update, outputExists)]
           batch == ReadInput(all)
       IN /\ UPDATE' = update
          /\ allInput' = all
          /\ IF ~readOk
             THEN /\ Len(batch) > 0
                  /\ input' = <<>>
                  /\ pc' = "failed"
                  /\ error' = "readFile"
             ELSE /\ input' = batch
                  /\ pc' = "create"
                  /\ error' = ""
  /\ UNCHANGED <<taskVars, cleanVars, fsVars, run, gistVars, index, inFlight, events, extractVars,
                 writeVars>>

Intake ==
  /\ pc = "intake"
  /\ \E update \in UpdateValues, readOk \in BOOLEAN :
       LET all == [n \in 1..numFound |-> InputInfo(n, update, outputExists)]
           batch == ReadInput(all)
       IN /\ UPDATE' = update
          /\ allInput' = all
          /\ IF ~readOk
             THEN /\ Len(batch) > 0
                  /\ input' = <<>>
                  /\ pc' = "failed"
                  /\ error' = "readFile"
             ELSE /\ input' = batch
                  /\ pc' = IF Len(batch) = 0 THEN "done" ELSE "create"
                  /\ error' = ""
  /\ UNCHANGED <<taskVars, cleanVars, fsVars, run, gistVars, index, inFlight, events, extractVars,
                 writeVars>>

---------------------------------------------------------------------------
(* Remote requests and the log of what the call did.                       *)

Request(op, at) == [op |-> op, at |-> at]

Event(op, target, data) == [op |-> op, target |-> target, data |-> data]

NoTarget == <<>>

---------------------------------------------------------------------------
(* Token check, payload, gist creation request: lines 559-593.             *)

TokenValues == {Unset, "", "token"}

\* process.env.GH_TOKEN || process.env.GITHUB_TOKEN
GhToken(ghTokenEnv, githubTokenEnv) ==
  IF Truthy(ghTokenEnv) THEN ghTokenEnv ELSE githubTokenEnv

\* BuildFiles without the placeholder entry.
BuildFiles_NoPlaceholder(batch) ==
  LET F[i \in 0..Len(batch)] ==
        IF i = 0 THEN [files |-> <<>>, map |-> <<>>, fileInputIndex |-> 0]
        ELSE LET prev == F[i - 1]
                 info == batch[i]
                 name == SlotName(prev.fileInputIndex)
             IN IF info.mode = "file"
                THEN [files |-> Append(prev.files,
                                       [name |-> name, content |-> info.value]),
                      map |-> Append(prev.map, [name |-> name, index |-> i - 1]),
                      fileInputIndex |-> prev.fileInputIndex + 1]
                ELSE prev
  IN [files |-> F[Len(batch)].files, map |-> F[Len(batch)].map]

\* The loop of lines 575-585 and the placeholder of lines 587-590.
\* files is the list of entries in insertion order, map is filenameToIndex.
BuildFiles(batch) ==
  LET F[i \in 0..Len(batch)] ==
        IF i = 0 THEN [files |-> <<>>, map |-> <<>>, fileInputIndex |-> 0]
        ELSE LET prev == F[i - 1]
                 info == batch[i]
                 name == SlotName(prev.fileInputIndex)
             IN IF info.mode = "file"
                THEN [files |-> Append(prev.files,
                                       [name |-> name, content |-> info.value]),
                      map |-> Append(prev.map, [name |-> name, index |-> i - 1]),
                      fileInputIndex |-> prev.fileInputIndex + 1]
                ELSE prev
      built == F[Len(batch)]
  IN [files |-> IF Len(built.files) = 0
                THEN <<[name |-> SlotName(0), content |-> <<".">>]>>
                ELSE built.files,
      map |-> built.map]

\* CreateGistRequest without the test of ghToken.
CreateGistRequest_TokenUnchecked ==
  /\ pc = "create"
  /\ \E ghTokenEnv \in TokenValues, githubTokenEnv \in TokenValues :
       LET built == BuildFiles(input)
       IN /\ ghToken' = Some(GhToken(ghTokenEnv, githubTokenEnv))
          /\ files' = built.files
          /\ filenameToIndex' = built.map
          /\ inFlight' = inFlight \cup {Request("gists.create", -1)}
          /\ events' = Append(events,
                              Event("gists.create", NoTarget, built.files))
          /\ pc' = "awaitCreate"
          /\ error' = ""
  /\ UNCHANGED <<taskVars, cleanVars, fsVars, run, intakeVars, gistResult, index, extractVars,
                 writeVars>>

\* The environment is read at line 563, whatever it holds then.
CreateGistRequest ==
  /\ pc = "create"
  /\ \E ghTokenEnv \in TokenValues, githubTokenEnv \in TokenValues :
       /\ ghToken' = Some(GhToken(ghTokenEnv, githubTokenEnv))
       /\ IF ~Truthy(GhToken(ghTokenEnv, githubTokenEnv))
          THEN /\ pc' = "failed"
               /\ error' = "Missing GitHub token: expected GH_TOKEN in env"
               /\ UNCHANGED <<files, filenameToIndex, inFlight, events>>
          ELSE LET built == BuildFiles(input)
               IN /\ files' = built.files
                  /\ filenameToIndex' = built.map
                  /\ inFlight' = inFlight \cup {Request("gists.create", -1)}
                  /\ events' = Append(events,
                                      Event("gists.create", NoTarget,
                                            built.files))
                  /\ pc' = "awaitCreate"
                  /\ error' = ""
  /\ UNCHANGED <<taskVars, cleanVars, fsVars, run, intakeVars, gistResult, index, extractVars,
                 writeVars>>

---------------------------------------------------------------------------
(* Gist creation response and its validation: lines 593-623.               *)

\* What the service answers for one submitted file.
GoodInfo == [language |-> "Markdown", truncated |-> FALSE]

OutputFilesOf(payload) ==
  [i \in DOMAIN payload |-> [name |-> payload[i].name, info |-> Some(GoodInfo)]]

\* The answers of the service to a creation request: the expected one, and
\* the ones that lack a field or flag one file.
CreateResponses(payload) ==
  LET good == [files |-> Some(OutputFilesOf(payload)),
               html_url |-> Some("url"),
               id |-> Some("id")]
      flagged(j, info) ==
        [good EXCEPT !.files =
           Some([OutputFilesOf(payload) EXCEPT ![j].info = info])]
  IN {good,
      [good EXCEPT !.files = None],
      [good EXCEPT !.html_url = None],
      [good EXCEPT !.id = None]}
     \cup {flagged(j, None) : j \in DOMAIN payload}
     \cup {flagged(j, Some([GoodInfo EXCEPT !.language = "Text"]))
             : j \in DOMAIN payload}
     \cup {flagged(j, Some([GoodInfo EXCEPT !.truncated = TRUE]))
             : j \in DOMAIN payload}

\* CheckOutputFile without the assertion on truncation.
CheckOutputFile_TruncatedAccepted(entry) ==
  IF ~IsSome(entry.info) THEN "expected file to be returned by github"
  ELSE IF Get(entry.info).language # "Markdown"
  THEN "expected github seeing file as plain text data (markdown)"
  ELSE ""

\* The assertions of the loop over outputFiles on one entry.
CheckOutputFile(entry) ==
  IF ~IsSome(entry.info) THEN "expected file to be returned by github"
  ELSE IF Get(entry.info).language # "Markdown"
  THEN "expected github seeing file as plain text data (markdown)"
  ELSE IF Get(entry.info).truncated THEN "expected github not truncating file"
  ELSE ""

\* The message of the first assertion of lines 597-623 that fails, "" if none.
CheckGistResult(data) ==
  IF ~IsSome(data.files) THEN "expected files to be returned by GH"
  ELSE IF ~IsSome(data.html_url) THEN "expected html_url to be returned by GH"
  ELSE IF ~IsSome(data.id) THEN "expected id to be returned by GH"
  ELSE LET outputFiles == Get(data.files)
           bad == {i \in DOMAIN outputFiles : CheckOutputFile(outputFiles[i]) # ""}
       IN IF bad = {} THEN ""
          ELSE CheckOutputFile(outputFiles[CHOOSE i \in bad : \A j \in bad : i <= j])

CreateGistResponse ==
  /\ pc = "awaitCreate"
  /\ inFlight' = inFlight \ {Request("gists.create", -1)}
  /\ \/ /\ pc' = "failed"
        /\ error' = "gists.create rejected"
        /\ UNCHANGED gistResult
     \/ \E data \in CreateResponses(files) :
          /\ gistResult' = Some(data)
          /\ error' = CheckGistResult(data)
          /\ pc' = IF CheckGistResult(data) = "" THEN "comments" ELSE "failed"
  /\ index' = -1
  /\ UNCHANGED <<taskVars, cleanVars, fsVars, run, intakeVars, files, filenameToIndex, ghToken,
                 events, extractVars, writeVars>>

---------------------------------------------------------------------------
(* Comment posting: lines 625-635.                                         *)

\* The JS indices after `from` of the comment-mode members of the batch.
CommentIndicesAfter(batch, from) ==
  {i \in (from + 1)..(Len(batch) - 1) : batch[i + 1].mode = "comment"}

\* CreateCommentRequest without the await: the loop goes on at once.
CreateCommentRequest_NotAwaited ==
  /\ pc = "comments"
  /\ CommentIndicesAfter(input, index) # {}
  /\ LET rest == CommentIndicesAfter(input, index)
         i == CHOOSE x \in rest : \A y \in rest : x <= y
     IN /\ index' = i
        /\ inFlight' = inFlight \cup {Request("gists.createComment", i)}
        /\ events' = Append(events,
             Event("gists.createComment", NoTarget, input[i + 1].value))
        /\ pc' = "comments"
  /\ UNCHANGED <<taskVars, cleanVars, fsVars, run, error, intakeVars, gistVars, extractVars,
                 writeVars>>

\* The loop runs on to the next comment-mode source and issues its post.
CreateCommentRequest ==
  /\ pc = "comments"
  /\ CommentIndicesAfter(input, index) # {}
  /\ LET rest == CommentIndicesAfter(input, index)
         i == CHOOSE x \in rest : \A y \in rest : x <= y
     IN /\ index' = i
        /\ inFlight' = inFlight \cup {Request("gists.createComment", i)}
        /\ events' = Append(events,
             Event("gists.createComment", NoTarget, input[i + 1].value))
        /\ pc' = "awaitComment"
  /\ UNCHANGED <<taskVars, cleanVars, fsVars, run, error, intakeVars, gistVars, extractVars,
                 writeVars>>

\* FetchRequest without waiting for the comment loop to end.
FetchRequest_CommentsPending ==
  /\ pc = "comments"
  /\ index' = Len(input)
  /\ inFlight' = inFlight \cup {Request("fetch", -1)}
  /\ events' = Append(events, Event("fetch", NoTarget, <<>>))
  /\ pc' = "awaitFetch"
  /\ UNCHANGED <<taskVars, cleanVars, fsVars, run, error, intakeVars, gistVars, extractVars,
                 writeVars>>

\* No comment-mode source is left: the loop ends and the rendered page is
\* requested (line 638).
FetchRequest ==
  /\ pc = "comments"
  /\ CommentIndicesAfter(input, index) = {}
  /\ index' = Len(input)
  /\ inFlight' = inFlight \cup {Request("fetch", -1)}
  /\ events' = Append(events, Event("fetch", NoTarget, <<>>))
  /\ pc' = "awaitFetch"
  /\ UNCHANGED <<taskVars, cleanVars, fsVars, run, error, intakeVars, gistVars, extractVars,
                 writeVars>>

CreateCommentResponse ==
  /\ pc = "awaitComment"
  /\ inFlight' = inFlight \ {Request("gists.createComment", index)}
  /\ \/ /\ pc' = "comments"
        /\ error' = ""
     \/ /\ pc' = "failed"
        /\ error' = "gists.createComment rejected"
  /\ UNCHANGED <<taskVars, cleanVars, fsVars, run, intakeVars, gistVars, index, events, extractVars,
                 writeVars>>

---------------------------------------------------------------------------
(* The rendered page: lines 637-650.                                       *)
(* A .file container has an optional .gist-blob-name element (its text)    *)
(* and an optional .markdown-body element (its children); a comment        *)
(* container is the list of its children.                                  *)

\* The blob name as the page shows it: surrounded by whitespace.
Padded(name) == <<"\n", " ">> \o name \o <<"\n">>

FileNodeOf(entry) ==
  [name |-> Some(Padded(entry.name)),
   body |-> Some(<<Render("file", entry.content)>>)]

CommentNodeOf(value) == <<WS, Render("comment", value), WS>>

\* Names that are no slot name.
BadNames == {<<"r", "e", "a", "d", "m", "e", "-", ".", "m", "d">>,
             <<"r", "e", "a", "d", "m", "e", "-", "0", ".", "t", "x", "t">>}

\* The containers of a page that renders every file once, and those of the
\* pages that differ from it in one container: left out, without name, with a
\* name that is no slot name, without body.
FileNodeLists(payload) ==
  LET good == [i \in DOMAIN payload |-> FileNodeOf(payload[i])]
  IN {good}
     \cup {RemoveAt(good, j) : j \in DOMAIN good}
     \cup {[good EXCEPT ![j].name = None] : j \in DOMAIN good}
     \cup {[good EXCEPT ![j].name = Some(b)] : j \in DOMAIN good, b \in BadNames}
     \cup {[good EXCEPT ![j].body = None] : j \in DOMAIN good}

\* The comment containers of a page that renders every posted comment, and
\* those of the pages that lack one.
CommentNodeLists(bodies) ==
  LET good == [i \in DOMAIN bodies |-> CommentNodeOf(bodies[i])]
  IN {good} \cup {RemoveAt(good, j) : j \in DOMAIN good}

Orderings(s) == {Permuted(s, p) : p \in Permutations_(s)}

\* The pages the service may answer with: the containers in any order.
Documents(payload, bodies) ==
  {[fileNodes |-> f, commentNodes |-> c] :
     f \in UNION {Orderings(l) : l \in FileNodeLists(payload)},
     c \in UNION {Orderings(l) : l \in CommentNodeLists(bodies)}}

IsCommentEvent(e) == e.op = "gists.createComment"

\* The bodies of the comments posted so far, in posting order.
PostedBodies(log) ==
  LET posted == Filter(log, IsCommentEvent)
  IN [i \in DOMAIN posted |-> posted[i].data]

\* await fetch(htmlUrl) and await response.text(); then the deletion of the
\* gist is issued.
\* FetchResponse with the deletion in a cleanup that also runs when the
\* fetch was rejected.
FetchResponse_DeleteOnFailure ==
  /\ pc = "awaitFetch"
  /\ \/ /\ pc' = "failed"
        /\ error' = "fetch rejected"
        /\ inFlight' = (inFlight \ {Request("fetch", -1)})
                          \cup {Request("gists.delete", -1)}
        /\ events' = Append(events, Event("gists.delete", NoTarget, <<>>))
        /\ UNCHANGED document
     \/ \E doc \in Documents(files, PostedBodies(events)) :
          /\ document' = Some(doc)
          /\ inFlight' = (inFlight \ {Request("fetch", -1)})
                            \cup {Request("gists.delete", -1)}
          /\ events' = Append(events, Event("gists.delete", NoTarget, <<>>))
          /\ pc' = "awaitDelete"
          /\ error' = ""
  /\ UNCHANGED <<taskVars, cleanVars, fsVars, run, intakeVars, gistVars, index, fileResults,
                 commentResults, writeVars>>

\* await fetch and response.text(), then the deletion request of line 646.
FetchResponse ==
  /\ pc = "awaitFetch"
  /\ \/ /\ pc' = "failed"
        /\ error' = "fetch rejected"
        /\ inFlight' = inFlight \ {Request("fetch", -1)}
        /\ UNCHANGED <<document, events>>
     \/ \E doc \in Documents(files, PostedBodies(events)) :
          /\ document' = Some(doc)
          /\ inFlight' = (inFlight \ {Request("fetch", -1)})
                            \cup {Request("gists.delete", -1)}
          /\ events' = Append(events, Event("gists.delete", NoTarget, <<>>))
          /\ pc' = "awaitDelete"
          /\ error' = ""
  /\ UNCHANGED <<taskVars, cleanVars, fsVars, run, intakeVars, gistVars, index, fileResults,
                 commentResults, writeVars>>

---------------------------------------------------------------------------
(* Fragment extraction: lines 648-699.                                     *)

\* SetAt on an array without holes: the indices below k are filled with the
\* empty string.
SetAt_Dense(arr, k, value) ==
  [x \in DOMAIN arr \cup 0..k |->
     IF x = k THEN value ELSE IF x \in DOMAIN arr THEN arr[x] ELSE <<>>]

\* fileResults[fileIndex] = value on a sparse array.
SetAt(arr, k, value) ==
  [x \in DOMAIN arr \cup {k} |-> IF x = k THEN value ELSE arr[x]]

\* The assertions of lines 661-674 on one .file container.
CheckFileNode(node) ==
  IF ~IsSome(node.name) THEN "expected github file to have a name"
  ELSE IF ~IsSome(MatchReadme(Trim(Get(node.name))))
  THEN "expected gist file name to match readme-\\d+.md"
  ELSE IF ~IsSome(node.body) THEN "expected github to render body"
  ELSE ""

\* ExtractFiles with the results pushed in document order.
ExtractFiles_ByPosition(fileNodes) ==
  LET F[i \in 0..Len(fileNodes)] ==
        IF i = 0 THEN [error |-> "", results |-> <<>>]
        ELSE LET prev == F[i - 1]
                 node == fileNodes[i]
             IN IF prev.error # "" THEN prev
                ELSE IF CheckFileNode(node) # ""
                THEN [prev EXCEPT !.error = CheckFileNode(node)]
                ELSE [prev EXCEPT !.results =
                        SetAt(prev.results, i - 1, Get(node.body))]
  IN F[Len(fileNodes)]

\* ExtractFiles with containers that fail an assertion skipped.
ExtractFiles_MalformedSkipped(fileNodes) ==
  LET F[i \in 0..Len(fileNodes)] ==
        IF i = 0 THEN [error |-> "", results |-> <<>>]
        ELSE LET prev == F[i - 1]
                 node == fileNodes[i]
             IN IF CheckFileNode(node) # "" THEN prev
                ELSE [prev EXCEPT !.results =
                        SetAt(prev.results,
                              ParseInt(Get(MatchReadme(Trim(Get(node.name))))),
                              Get(node.body))]
  IN F[Len(fileNodes)]

\* The loop of lines 656-679: the message of the first assertion that fails,
\* and the array filled from the containers before it.
ExtractFiles(fileNodes) ==
  LET F[i \in 0..Len(fileNodes)] ==
        IF i = 0 THEN [error |-> "", results |-> <<>>]
        ELSE LET prev == F[i - 1]
                 node == fileNodes[i]
             IN IF prev.error # "" THEN prev
                ELSE IF CheckFileNode(node) # ""
                THEN [prev EXCEPT !.error = CheckFileNode(node)]
                ELSE [prev EXCEPT !.results =
                        SetAt(prev.results,
                              ParseInt(Get(MatchReadme(Trim(Get(node.name))))),
                              Get(node.body))]
  IN F[Len(fileNodes)]

\* TrimComment with every leading and trailing whitespace child dropped.
TrimComment_AllWhitespace(children) ==
  LET solid == {i \in DOMAIN children : ~IsWhitespace(children[i])}
  IN IF solid = {} THEN <<>>
     ELSE SubSeq(children,
                 CHOOSE i \in solid : \A j \in solid : i <= j,
                 CHOOSE i \in solid : \A j \in solid : j <= i)

\* Lines 685-696: one leading and one trailing whitespace child are dropped.
TrimComment(children) ==
  LET afterHead == IF Len(children) > 0 /\ IsWhitespace(children[1])
                   THEN Tail(children)
                   ELSE children
  IN IF Len(afterHead) > 0 /\ IsWhitespace(Last(afterHead))
     THEN SubSeq(afterHead, 1, Len(afterHead) - 1)
     ELSE afterHead

\* ExtractComments with the results unshifted instead of pushed.
ExtractComments_Reversed(commentNodes) ==
  [i \in DOMAIN commentNodes |->
     TrimComment(commentNodes[Len(commentNodes) + 1 - i])]

\* The loop of lines 681-699.
ExtractComments(commentNodes) ==
  [i \in DOMAIN commentNodes |-> TrimComment(commentNodes[i])]

\* await octo.gists.delete, then the parse and the two extraction loops.
DeleteGistResponse ==
  /\ pc = "awaitDelete"
  /\ inFlight' = inFlight \ {Request("gists.delete", -1)}
  /\ \/ /\ pc' = "failed"
        /\ error' = "gists.delete rejected"
        /\ UNCHANGED <<fileResults, commentResults, index>>
     \/ LET whole == Get(document)
            extracted == ExtractFiles(whole.fileNodes)
        IN IF extracted.error # ""
           THEN /\ pc' = "failed"
                /\ error' = extracted.error
                /\ UNCHANGED <<fileResults, commentResults, index>>
           ELSE /\ fileResults' = extracted.results
                /\ commentResults' = ExtractComments(whole.commentNodes)
                /\ index' = -1
                /\ pc' = "write"
                /\ error' = ""
  /\ UNCHANGED <<taskVars, cleanVars, fsVars, run, intakeVars, gistVars, events, document, writeVars>>

---------------------------------------------------------------------------
(* The write loop: lines 701-725.                                          *)

\* fileResults[k] or commentResults[k]: an optional fragment.  The comment
\* results are a JS array, indexed from 0.
ResultAt(mode, k) ==
  IF mode = "file"
  THEN IF k \in DOMAIN fileResults THEN Some(fileResults[k]) ELSE None
  ELSE IF k + 1 \in DOMAIN commentResults THEN Some(commentResults[k + 1]) ELSE None

\* WriteOutput with a rejected write caught: the loop goes on.
WriteOutput_RejectionCaught ==
  /\ pc = "write"
  /\ index + 1 < Len(input)
  /\ LET file == input[index + 2]
         k == IF file.mode = "file" THEN fileIndex + 1 ELSE commentIndex + 1
         result == ResultAt(file.mode, k)
         clean == IF IsSome(result) THEN Get(result) ELSE <<>>
     IN /\ index' = index + 1
        /\ fileIndex' = IF file.mode = "file" THEN k ELSE fileIndex
        /\ commentIndex' = IF file.mode = "file" THEN commentIndex ELSE k
        /\ events' = Append(events, Event("writeFile", file.outputUrl, clean))
        /\ \/ /\ outputExists' = [outputExists EXCEPT ![file.outputUrl] = TRUE]
              /\ mtime' = [mtime EXCEPT ![file.outputUrl] = @ + 1]
           \/ UNCHANGED <<outputExists, mtime>>
        /\ pc' = IF index + 2 < Len(input) THEN "write" ELSE "done"
        /\ error' = ""
  /\ UNCHANGED <<taskVars, cleanVars, numFound, run, intakeVars, gistVars, inFlight, extractVars>>

\* WriteOutput with the results of both modes taken from fileResults.
WriteOutput_FileResultsOnly ==
  /\ pc = "write"
  /\ index + 1 < Len(input)
  /\ LET file == input[index + 2]
         k == IF file.mode = "file" THEN fileIndex + 1 ELSE commentIndex + 1
         result == ResultAt("file", k)
         clean == IF IsSome(result) THEN Get(result) ELSE <<>>
     IN /\ index' = index + 1
        /\ fileIndex' = IF file.mode = "file" THEN k ELSE fileIndex
        /\ commentIndex' = IF file.mode = "file" THEN commentIndex ELSE k
        /\ events' = Append(events, Event("writeFile", file.outputUrl, clean))
        /\ \/ /\ outputExists' = [outputExists EXCEPT ![file.outputUrl] = TRUE]
              /\ mtime' = [mtime EXCEPT ![file.outputUrl] = @ + 1]
              /\ pc' = IF index + 2 < Len(input) THEN "write" ELSE "done"
              /\ error' = ""
           \/ /\ \/ UNCHANGED <<outputExists, mtime>>
                 \/ /\ outputExists' =
                         [outputExists EXCEPT ![file.outputUrl] = TRUE]
                    /\ mtime' = [mtime EXCEPT ![file.outputUrl] = @ + 1]
              /\ pc' = "failed"
              /\ error' = "writeFile rejected"
  /\ UNCHANGED <<taskVars, cleanVars, numFound, run, intakeVars, gistVars, inFlight, extractVars>>

\* One iteration.  The fragment is parsed, cleaned and serialized on its own
\* (the cleaning rules do not look at other sources); the log records the
\* fragment the source was given.  A result that is undefined (a hole in
\* fileResults, an index past the end of either array) is parsed as the empty
\* document: the parser reads its input through a virtual file, and one
\* without value stringifies to ''.  fs.writeFile may be rejected, with or
\* without having touched the file.
WriteOutput ==
  /\ pc = "write"
  /\ index + 1 < Len(input)
  /\ LET file == input[index + 2]
         k == IF file.mode = "file" THEN fileIndex + 1 ELSE commentIndex + 1
         result == ResultAt(file.mode, k)
         clean == IF IsSome(result) THEN Get(result) ELSE <<>>
     IN /\ index' = index + 1
        /\ fileIndex' = IF file.mode = "file" THEN k ELSE fileIndex
        /\ commentIndex' = IF file.mode = "file" THEN commentIndex ELSE k
        /\ events' = Append(events, Event("writeFile", file.outputUrl, clean))
        /\ \/ /\ outputExists' = [outputExists EXCEPT ![file.outputUrl] = TRUE]
              /\ mtime' = [mtime EXCEPT ![file.outputUrl] = @ + 1]
              /\ pc' = IF index + 2 < Len(input) THEN "write" ELSE "done"
              /\ error' = ""
           \/ /\ \/ UNCHANGED <<outputExists, mtime>>
                 \/ /\ outputExists' =
                         [outputExists EXCEPT ![file.outputUrl] = TRUE]
                    /\ mtime' = [mtime EXCEPT ![file.outputUrl] = @ + 1]
              /\ pc' = "failed"
              /\ error' = "writeFile rejected"
  /\ UNCHANGED <<taskVars, cleanVars, numFound, run, intakeVars, gistVars, inFlight, extractVars>>

Next ==
  \/ StartRun
  \/ Intake
  \/ CreateGistRequest
  \/ CreateGistResponse
  \/ CreateCommentRequest
  \/ CreateCommentResponse
  \/ FetchRequest
  \/ FetchResponse
  \/ DeleteGistResponse
  \/ WriteOutput

Spec == Init /\ [][Next]_vars

---------------------------------------------------------------------------
(* What the claims speak about.                                            *)

\* The discovered files.
Found == 1..numFound

\* The file name of n has a stem segment equal to `offline'.
HasOfflineSegment(n) ==
  \E i \in 1..(Len(FileName(n)) - 1) : FileName(n)[i] = "offline"

\* The event e sends the content of file n to the remote service.
Submits(e, n) ==
  \/ /\ e.op = "gists.create"
     /\ \E i \in DOMAIN e.data : e.data[i].content = <<"md", n>>
  \/ /\ e.op = "gists.createComment"
     /\ e.data = <<"md", n>>

\* The event e writes the output of file n.
Writes(e, n) == e.op = "writeFile" /\ e.target = OutputUrl(n)

IsWriteEvent(e) == e.op = "writeFile"

\* The writes of the current call, in order.
WriteEvents == Filter(events, IsWriteEvent)

\* The step appends an event to the log of the call.
NewEvent == Len(events') = Len(events) + 1

---------------------------------------------------------------------------
\* C1: a discovered source with a stem segment `offline' is never submitted
\* (gist payload or comment) and its output path is never written, whatever
\* UPDATE is and whether or not its output exists.
C1_OfflineNeverSubmittedNorWritten ==
  \A n \in Found :
    HasOfflineSegment(n) =>
      /\ \A i \in DOMAIN events : ~Submits(events[i], n) /\ ~Writes(events[i], n)
      /\ \A i \in DOMAIN input : input[i].inputUrl # n
      /\ mtime[OutputUrl(n)] = 0

\* A forced call that completed with a non-empty batch while an offline
\* source without output was among the discovered files.
C1_Witness ==
  /\ pc = "done"
  /\ Truthy(UPDATE)
  /\ Len(WriteEvents) > 0
  /\ \E n \in Found : HasOfflineSegment(n) /\ ~outputExists[OutputUrl(n)]
  /\ \E n \in Found : HasOfflineSegment(n) /\ ModeOf(FileName(n)) = "comment"

\* C2: the generate decision of every discovered source is
\* !offline && (forceRegenerate || outputMissing), and the batch holds
\* exactly the sources whose decision is true.  The decision is compared with
\* the file system as long as the call has written nothing.
C2_GenerateDecision ==
  pc \notin {"idle", "intake"} =>
    /\ Len(allInput) = numFound
    /\ \A n \in Found :
         /\ allInput[n].inputUrl = n
         /\ (\A i \in DOMAIN events : events[i].op # "writeFile") =>
              (allInput[n].generate <=>
                 /\ ~HasOfflineSegment(n)
                 /\ \/ UPDATE \notin {Unset, ""}
                    \/ ~outputExists[OutputUrl(n)])
         /\ error # "readFile" =>
              (allInput[n].generate <=>
                 \E i \in DOMAIN input : input[i].inputUrl = n)
    /\ \A i \in DOMAIN input : input[i].inputUrl \in Found

\* After intake, with UPDATE set to the empty string: a source with an
\* existing output is skipped while another one is in the batch.
C2_Witness ==
  /\ pc = "create"
  /\ UPDATE = ""
  /\ \E n \in Found :
       /\ ~HasOfflineSegment(n)
       /\ outputExists[OutputUrl(n)]
       /\ ~allInput[n].generate
  /\ Len(input) > 0

\* C3: without the force flag, no step of a call writes an output that
\* exists or newly submits the content of its source; so an output that was
\* written once is not written again by a later call without the flag.
C3_ExistingUntouched ==
  [][\A n \in Paths :
       (~Truthy(UPDATE) /\ outputExists[OutputUrl(n)]) =>
          /\ mtime'[OutputUrl(n)] = mtime[OutputUrl(n)]
          /\ outputExists'[OutputUrl(n)]
          /\ NewEvent =>
               /\ ~Writes(Last(events'), n)
               /\ ~Submits(Last(events'), n)]_vars

\* A second call without the force flag completed and generated a source,
\* while an output written by the first call was not written again.
C3_Witness ==
  /\ run = 2
  /\ pc = "done"
  /\ ~Truthy(UPDATE)
  /\ Len(WriteEvents) > 0
  /\ \E n \in Found :
       /\ mtime[OutputUrl(n)] = 1
       /\ \A i \in DOMAIN events : ~Writes(events[i], n)

---------------------------------------------------------------------------
IsFileMode(d) == d.mode = "file"

IsCommentMode(d) == d.mode = "comment"

\* The file-mode and the comment-mode members of the batch, in batch order.
FileSources == Filter(input, IsFileMode)

CommentSources == Filter(input, IsCommentMode)

\* The write event of the call for the batch member d, if there is one.
WriteEventsFor(d) == {i \in DOMAIN events : events[i].op = "writeFile"
                                              /\ events[i].target = d.outputUrl}

\* The .file containers of the page whose visible name (the text of the name
\* element without the surrounding whitespace) is name.
NodesNamed(name) ==
  {i \in DOMAIN Get(document).fileNodes :
     /\ Len(Get(document).fileNodes[i].name) = 1
     /\ Trim(Get(document).fileNodes[i].name[1]) = name}

\* The gist payloads sent by the call.
CreateEvents == {i \in DOMAIN events : events[i].op = "gists.create"}

\* C4: the k-th file-mode source of the batch is submitted as readme-k.md, and
\* the write stage gives it the body of the container whose visible name is
\* readme-k.md, wherever that container stands in the page.
C4_FileCorrespondence ==
  LET sources == FileSources
  IN \A k \in DOMAIN sources :
       /\ \A c \in CreateEvents :
            /\ Len(events[c].data) >= k
            /\ events[c].data[k].name = SlotName(k - 1)
            /\ events[c].data[k].content = sources[k].value
       /\ \A w \in WriteEventsFor(sources[k]) :
            \A i \in NodesNamed(SlotName(k - 1)) :
              Cardinality(NodesNamed(SlotName(k - 1))) = 1 =>
                events[w].data = Get(document).fileNodes[i].body[1]

\* A call completed whose batch interleaves two file-mode sources with a
\* comment-mode source and whose page shows the container of readme-1.md
\* before that of readme-0.md.
C4_Witness ==
  /\ pc = "done"
  /\ Len(FileSources) = 2
  /\ Len(input) >= 3
  /\ input[2].mode = "comment"
  /\ Len(Get(document).fileNodes) = 2
  /\ NodesNamed(SlotName(1)) = {1}
  /\ NodesNamed(SlotName(0)) = {2}
  /\ events[Len(events)].data = <<Render("file", FileSources[2].value)>>

\* The page lists the rendering of every posted comment, in posting order.
CommentsInPostingOrder ==
  /\ Len(Get(document).commentNodes) = Len(CommentSources)
  /\ \A k \in DOMAIN CommentSources :
       \E i \in DOMAIN Get(document).commentNodes[k] :
         Get(document).commentNodes[k][i] =
           <<"html", "comment", CommentSources[k].value>>

\* C5: the k-th comment-mode source of the batch is written with the fragment
\* of the k-th comment container of the page; when the page lists the
\* comments in posting order that is the rendering of its own content.
C5_CommentCorrespondence ==
  LET sources == CommentSources
  IN \A k \in DOMAIN sources :
       \A w \in WriteEventsFor(sources[k]) :
         /\ k <= Len(Get(document).commentNodes) =>
              events[w].data = TrimComment(Get(document).commentNodes[k])
         /\ CommentsInPostingOrder =>
              events[w].data = <<<<"html", "comment", sources[k].value>>>>

\* A call completed whose batch holds two comment-mode sources around a
\* file-mode source, on a page that lists the comments in posting order.
C5_Witness ==
  /\ pc = "done"
  /\ Len(CommentSources) = 2
  /\ Len(input) >= 3
  /\ input[1].mode = "comment"
  /\ input[2].mode = "file"
  /\ CommentsInPostingOrder
  /\ \A k \in DOMAIN CommentSources : WriteEventsFor(CommentSources[k]) # {}

\* The comments posted by the call, in the order of the requests.
PostedComments == Filter(events, IsCommentEvent)

\* C6: the posts are issued in batch order, one per comment-mode source, each
\* after the answer to the previous one: at most one request is in flight,
\* and once the page is requested every comment-mode source was posted once.
C6_CommentsSequential ==
  LET posted == PostedComments
      sources == CommentSources
  IN /\ Len(posted) <= Len(sources)
     /\ \A k \in DOMAIN posted : posted[k].data = sources[k].value
     /\ Cardinality({r \in inFlight : r.op = "gists.createComment"}) <= 1
     /\ Cardinality(inFlight) <= 1
     /\ (\E r \in inFlight : r.op = "gists.createComment") =>
           /\ pc = "awaitComment"
           /\ Last(events).op = "gists.createComment"
     /\ (\E i \in DOMAIN events : events[i].op = "fetch") =>
           Len(posted) = Len(sources)

\* The second of two comments is in flight, the first one was answered.
C6_Witness ==
  /\ pc = "awaitComment"
  /\ Len(PostedComments) = 2
  /\ inFlight = {Request("gists.createComment", index)}
  /\ input[index + 1].value = PostedComments[2].data

\* C7: every creation request carries at least one entry: the single
\* placeholder readme-0.md when the batch has no file-mode source, otherwise
\* exactly readme-0.md .. readme-(n-1).md with the contents of the n file-mode
\* sources and no placeholder.
C7_PayloadNeverEmpty ==
  LET sources == FileSources
  IN \A c \in CreateEvents :
       /\ Len(events[c].data) >= 1
       /\ Len(sources) = 0 =>
            events[c].data =
              <<[name |-> <<"r", "e", "a", "d", "m", "e", "-", "0", ".", "m", "d">>,
                 content |-> <<".">>]>>
       /\ Len(sources) >= 1 =>
            /\ Len(events[c].data) = Len(sources)
            /\ \A k \in DOMAIN sources :
                 /\ events[c].data[k].name = SlotName(k - 1)
                 /\ events[c].data[k].content = sources[k].value

\* A creation request was sent for a batch of comment-mode sources only.
C7_Witness ==
  /\ pc = "awaitCreate"
  /\ Len(input) = 2
  /\ Len(FileSources) = 0
  /\ CreateEvents # {}

\* The creation response lacks a field or flags an entry.
InvalidCreateResponse ==
  /\ Len(gistResult) = 1
  /\ \/ Len(gistResult[1].files) = 0
     \/ Len(gistResult[1].html_url) = 0
     \/ Len(gistResult[1].id) = 0
     \/ \E i \in DOMAIN gistResult[1].files[1] :
          /\ Len(gistResult[1].files[1][i].info) = 1
          /\ \/ gistResult[1].files[1][i].info[1].language # "Markdown"
             \/ gistResult[1].files[1][i].info[1].truncated

\* C8: a creation response that lacks the entries, the URL or the id, or has
\* an entry that is not Markdown or is truncated, ends the call with an error
\* before any comment is posted, the page is fetched or an output is written.
C8_CreateValidationFatal ==
  InvalidCreateResponse =>
    /\ pc = "failed"
    /\ error # ""
    /\ \A i \in DOMAIN events : events[i].op = "gists.create"
    /\ inFlight = {}
    /\ Len(document) = 0

\* The call failed on a response whose second entry is reported truncated,
\* with a comment-mode source waiting in the batch.
C8_Witness ==
  /\ pc = "failed"
  /\ Len(gistResult) = 1
  /\ Len(gistResult[1].files) = 1
  /\ Len(gistResult[1].files[1]) = 2
  /\ Len(gistResult[1].files[1][2].info) = 1
  /\ gistResult[1].files[1][2].info[1].truncated
  /\ Len(CommentSources) > 0

\* A .file container of the page has no name, a name that is no
\* readme-<digits>.md, or no body.
MalformedFileNode ==
  /\ Len(document) = 1
  /\ \E i \in DOMAIN document[1].fileNodes :
       \/ Len(document[1].fileNodes[i].name) = 0
       \/ Len(MatchReadme(document[1].fileNodes[i].name[1])) = 0
       \/ Len(document[1].fileNodes[i].body) = 0

\* C9: a page with a malformed .file container ends the call with an error
\* (at the latest when the extraction runs, after the deletion is answered)
\* and no output is written.
C9_ExtractionFatal ==
  MalformedFileNode =>
    /\ pc \in {"awaitDelete", "failed"}
    /\ pc = "failed" => error # ""
    /\ Len(WriteEvents) = 0

\* The call failed in the extraction on a container without body that follows
\* a well-formed one.
C9_Witness ==
  /\ pc = "failed"
  /\ error = "expected github to render body"
  /\ Len(document[1].fileNodes) = 2
  /\ Len(document[1].fileNodes[2].body) = 0

\* The call failed in the write loop.
FailedInWriteLoop == pc = "failed" /\ error = "writeFile rejected"

\* The writes of the call that were carried out: all of them, but for the
\* last one when it was rejected.
CompletedWrites ==
  IF pc = "failed" /\ error = "writeFile rejected"
  THEN SubSeq(WriteEvents, 1, Len(WriteEvents) - 1)
  ELSE WriteEvents

\* The outputs of the batch that the call has written.
WrittenOutputs == {CompletedWrites[i].target : i \in DOMAIN CompletedWrites}

BatchOutputs == {input[i].outputUrl : i \in DOMAIN input}

---------------------------------------------------------------------------
---------------------------------------------------------------------------
\* No discovered source is to be generated.
NoneToGenerate == \A i \in DOMAIN allInput : ~allInput[i].generate

\* C12: when no discovered source has generate = true (no markdown file, or
\* every file is offline or has an output while UPDATE is not truthy), the
\* call completes successfully, without a remote call and without a write.
C12_NothingToGenerate ==
  (pc \notin {"idle", "intake"} /\ NoneToGenerate) =>
    /\ pc = "done"
    /\ error = ""
    /\ input = <<>>
    /\ events = <<>>
    /\ inFlight = {}

\* A call completed over a folder that holds an offline source without an
\* output and a source whose output exists, with UPDATE not truthy.
C12_Witness ==
  /\ pc = "done"
  /\ NoneToGenerate
  /\ ~Truthy(UPDATE)
  /\ \E n \in Found : HasOfflineSegment(n) /\ ~outputExists[OutputUrl(n)]
  /\ \E n \in Found : ~HasOfflineSegment(n) /\ outputExists[OutputUrl(n)]

---------------------------------------------------------------------------
\* The call has issued the delete request.
DeleteIssued == \E i \in DOMAIN events : events[i].op = "gists.delete"

\* The call has issued the fetch of the rendered page.
FetchIssued == \E i \in DOMAIN events : events[i].op = "fetch"

\* The creation request was answered and the answer passed lines 597-623.
ContainerCreated == IsSome(gistResult) /\ CheckGistResult(Get(gistResult)) = ""

\* C13 as stated: the delete request is issued only in calls that go on to
\* complete successfully, so no call that has issued it aborts.
C13_DeleteOnlyOnSuccess == DeleteIssued => pc # "failed"

\* C13 as amended: the delete request is issued only once the container was
\* created and validated, every comment-mode source was posted and the page
\* was fetched; a call that aborts after the creation and before that point
\* never issues it.
C13_DeleteOnlyAfterFetch ==
  /\ DeleteIssued =>
       /\ ContainerCreated
       /\ FetchIssued
       /\ IsSome(document)
       /\ Len(PostedComments) = Len(CommentSources)
  /\ (pc = "failed" /\ IsSome(gistResult) /\ ~IsSome(document)) =>
       /\ ~DeleteIssued
       /\ Request("gists.delete", -1) \notin inFlight

\* A call aborted on a rejected fetch, after the container was created and a
\* comment was posted to it: the container is left behind.
C13_Witness ==
  /\ pc = "failed"
  /\ error = "fetch rejected"
  /\ ContainerCreated
  /\ Len(PostedComments) > 0
  /\ ~DeleteIssued

---------------------------------------------------------------------------
\* The rendering of the placeholder entry of lines 587-590.
PlaceholderRendering == <<Render("file", <<".">>)>>

\* C18: in a call that completed, the writes are one per source of the
\* batch, each to the output path of its source (the source path with its
\* extension replaced by html), so no other path is written and no path
\* twice; when the batch has only comment-mode sources, no write carries the
\* rendering of the placeholder entry.
C18_OneWritePerSource ==
  pc = "done" =>
    LET writes == WriteEvents
    IN /\ Len(writes) = Len(input)
       /\ \A i \in DOMAIN writes :
            writes[i].target = ReplaceExt(FileName(input[i].inputUrl), "html")
       /\ \A i, j \in DOMAIN writes :
            writes[i].target = writes[j].target => i = j
       /\ (\A i \in DOMAIN input : input[i].mode = "comment") =>
            \A i \in DOMAIN writes : writes[i].data # PlaceholderRendering

\* A call completed for a batch of two comment-mode sources: the placeholder
\* was submitted and rendered, and two outputs were written.
C18_Witness ==
  /\ pc = "done"
  /\ Len(input) = 2
  /\ \A i \in DOMAIN input : input[i].mode = "comment"
  /\ IsSome(document)
  /\ \E i \in DOMAIN Get(document).fileNodes :
       Get(document).fileNodes[i].body = Some(PlaceholderRendering)
  /\ Len(WriteEvents) = 2

---------------------------------------------------------------------------
(* Fragment trees.  A node of a parsed fragment (hast) is a record; a text *)
(* is a sequence of tokens (characters, or words the rules never split).   *)
(* A property value is a tagged sequence: a string with its tokens, a list *)
(* with its items (className, rel), true, or undefined.                    *)

NoProperties == [k \in {} |-> <<>>]

Str(tokens) == <<"string">> \o tokens

List(items) == <<"list">> \o items

True == <<"true">>

Undefined == <<"undefined">>

IsString(v) == v[1] = "string"

IsArray(v) == v[1] = "list"

\* array.includes(item)
Includes(v, item) == \E i \in 2..Len(v) : v[i] = item

\* element.properties[key]
Prop(properties, key) ==
  IF key \in DOMAIN properties THEN properties[key] ELSE Undefined

\* properties[key] = value
SetProp(properties, key, value) ==
  [k \in DOMAIN properties \cup {key} |->
     IF k = key THEN value ELSE properties[k]]

\* delete properties[key]
DeleteProp(properties, key) ==
  [k \in DOMAIN properties \ {key} |-> properties[k]]

Element(tagName, properties, children) ==
  [type |-> "element", tagName |-> tagName, properties |-> properties,
   children |-> children, value |-> <<>>]

Text(value) ==
  [type |-> "text", tagName |-> "", properties |-> NoProperties,
   children |-> <<>>, value |-> value]

Root(children) ==
  [type |-> "root", tagName |-> "", properties |-> NoProperties,
   children |-> children, value |-> <<>>]

---------------------------------------------------------------------------
(* The rules mutate the objects of a tree in place, and an object that was *)
(* spliced out of its parent is still traversed.  The objects live in a    *)
(* heap: nodes[id] is the object id, its children are ids.  error is the   *)
(* message of an exception thrown while the tree was transformed.          *)

RECURSIVE Size(_)
RECURSIVE SizeOfAll(_)

\* The number of objects of the subtree node.
Size(node) == 1 + SizeOfAll(node.children)

SizeOfAll(children) ==
  IF children = <<>> THEN 0
  ELSE Size(Head(children)) + SizeOfAll(Tail(children))

RECURSIVE Alloc(_, _)
RECURSIVE AllocAll(_, _)

\* The objects of the subtree node, children before parents; the first has
\* the id after base and the object of node has the last.
Alloc(node, base) ==
  LET before == [i \in DOMAIN node.children |->
                   base + SizeOfAll(SubSeq(node.children, 1, i - 1))]
      ids == [i \in DOMAIN node.children |->
                before[i] + Size(node.children[i])]
  IN Append(AllocAll(node.children, base), [node EXCEPT !.children = ids])

AllocAll(children, base) ==
  IF children = <<>> THEN <<>>
  ELSE Alloc(Head(children), base)
         \o AllocAll(Tail(children), base + Size(Head(children)))

\* fromHtmlIsomorphic(result, {fragment: true}): the tree of the fragment,
\* its root is the last object.
FromHtml(fragment) == [nodes |-> Alloc(Root(fragment), 0), error |-> ""]

RootOf(t) == Len(t.nodes)

RECURSIVE TreeAt(_, _)

\* The subtree that hangs below the object id.
TreeAt(t, id) ==
  [t.nodes[id] EXCEPT
     !.children = [i \in DOMAIN t.nodes[id].children |->
                     TreeAt(t, t.nodes[id].children[i])]]

\* The children of the root, as a fragment.
FragmentOf(t) == TreeAt(t, RootOf(t)).children

\* children.splice(at, deleteCount, ...items), positions from 1.
Splice(children, at, deleteCount, items) ==
  SubSeq(children, 1, at - 1) \o items
    \o SubSeq(children, at + deleteCount, Len(children))

\* parent.children.indexOf(node), from 1.
IndexOf(t, parent, id) ==
  CHOOSE i \in DOMAIN t.nodes[parent].children :
    /\ t.nodes[parent].children[i] = id
    /\ \A j \in 1..(i - 1) : t.nodes[parent].children[j] # id

SetProperties(t, id, properties) ==
  [t EXCEPT !.nodes[id].properties = properties]

SetChildren(t, id, children) ==
  [t EXCEPT !.nodes[id].children = children]

\* matches('.name', element)
HasClass(node, name) ==
  /\ IsArray(Prop(node.properties, "className"))
  /\ Includes(Prop(node.properties, "className"), name)

\* matches('[name]', element): the property is neither undefined nor an
\* empty list.
HasAttribute(node, key) ==
  /\ Prop(node.properties, key) # Undefined
  /\ Prop(node.properties, key) # List(<<>>)

---------------------------------------------------------------------------
(* The visitors of the cleaning rules: lines 77-479.  A visitor is given   *)
(* the tree t, the element id, its position at in the children of parent.  *)

HeadingNames == {"h1", "h2", "h3", "h4", "h5", "h6"}

\* headingRank(node)
HeadingRank(node) == node.type = "element" /\ node.tagName \in HeadingNames

NotHeadingElement(d) == d # "heading-element"

\* Lines 78-111.  headingRank reads first.type: a wrapper without children
\* makes it throw.
AnchorVisitor(t, id, at, parent) ==
  LET element == t.nodes[id]
  IN IF element.tagName = "div" /\ HasClass(element, "markdown-heading")
     THEN IF Len(element.children) = 0
          THEN [t EXCEPT !.error = "TypeError"]
          ELSE LET first == t.nodes[element.children[1]]
               IN IF /\ HeadingRank(first)
                     /\ HasClass(first, "heading-element")
                     /\ Len(element.children) > 1
                     /\ t.nodes[element.children[2]].type = "element"
                     /\ HasClass(t.nodes[element.children[2]], "anchor")
                  THEN LET kept == Filter(Tail(first.properties.className),
                                          NotHeadingElement)
                           className == IF Len(kept) = 0 THEN Undefined
                                        ELSE List(kept)
                           renamed ==
                             SetProperties(t, element.children[1],
                               SetProp(first.properties, "className", className))
                       IN SetChildren(renamed, parent,
                            Splice(renamed.nodes[parent].children, at, 1,
                                   <<element.children[1]>>))
                  ELSE t
     ELSE t

\* A value that is truthy in JS.
TruthyValue(v) == v # Undefined /\ v # Str(<<>>)

\* Lines 132-162.
CamoImageVisitor(t, id, at, parent) ==
  LET element == t.nodes[id]
      camo == Prop(element.properties, "src")
      original == Prop(element.properties, "dataCanonicalSrc")
  IN IF element.tagName = "img" /\ TruthyValue(original)
     THEN LET moved == SetProperties(t, id,
                         DeleteProp(SetProp(element.properties, "src", original),
                                    "dataCanonicalSrc"))
              above == moved.nodes[parent]
          IN IF /\ above.type = "element"
                /\ above.tagName = "a"
                /\ Prop(above.properties, "href") = camo
             THEN SetProperties(moved, parent,
                                SetProp(above.properties, "href", original))
             ELSE moved
     ELSE t

\* Lines 174-227.
IssueVisitor(t, id, at, parent) ==
  LET element == t.nodes[id]
  IN IF element.tagName = "a" /\ HasClass(element, "issue-link")
     THEN SetChildren(t, parent,
                      Splice(t.nodes[parent].children, at, 1, element.children))
     ELSE IF /\ element.tagName = "a"
             /\ Prop(element.properties, "dataHovercardType")
                  \in {Str(<<"issue">>), Str(<<"pull_request">>)}
     THEN SetProperties(t, id,
            SetProp(SetProp(element.properties, "dataHovercardType", Undefined),
                    "dataHovercardUrl", Undefined))
     ELSE t

\* Lines 240-244 where dir is deleted only on an element that has a class.
DirVisitor_OnClassed(t, id, at, parent) ==
  LET element == t.nodes[id]
  IN IF /\ Prop(element.properties, "dir") = Str(<<"auto">>)
        /\ Prop(element.properties, "className") # Undefined
     THEN SetProperties(t, id, DeleteProp(element.properties, "dir"))
     ELSE t

\* Lines 240-244.
DirVisitor(t, id, at, parent) ==
  LET element == t.nodes[id]
  IN IF Prop(element.properties, "dir") = Str(<<"auto">>)
     THEN SetProperties(t, id, DeleteProp(element.properties, "dir"))
     ELSE t

HexDigits == Range(Digits) \cup {"a", "b", "c", "d", "e", "f"}

HashLen == 32

\* value.replace(/-[\da-f]{32}$/, '')
StripHash(s) ==
  LET n == Len(s)
  IN IF /\ n > HashLen
        /\ s[n - HashLen] = "-"
        /\ \A i \in (n - HashLen + 1)..n : s[i] \in HexDigits
     THEN SubSeq(s, 1, n - HashLen - 1)
     ELSE s

FootnotePrefix == <<"user-content-fn">>

\* The selector without its tag names.
MatchesFootnote_AnyTag(element) ==
  \/ HasAttribute(element, "dataFootnoteRef")
  \/ HasClass(element, "data-footnote-backref")
  \/ /\ IsString(Prop(element.properties, "id"))
     /\ SubSeq(Tail(element.properties.id), 1, Len(FootnotePrefix))
          = FootnotePrefix

\* matches('a[data-footnote-ref], a.data-footnote-backref,
\* li[id^=user-content-fn]', element)
MatchesFootnote(element) ==
  \/ element.tagName = "a" /\ HasAttribute(element, "dataFootnoteRef")
  \/ element.tagName = "a" /\ HasClass(element, "data-footnote-backref")
  \/ /\ element.tagName = "li"
     /\ IsString(Prop(element.properties, "id"))
     /\ SubSeq(Tail(element.properties.id), 1, Len(FootnotePrefix))
          = FootnotePrefix

\* Lines 276-285 for one field.
StripField(properties, field) ==
  IF field \in DOMAIN properties /\ IsString(properties[field])
  THEN SetProp(properties, field, Str(StripHash(Tail(properties[field]))))
  ELSE properties

\* Lines 258-287.
FootnoteIdHashVisitor(t, id, at, parent) ==
  LET element == t.nodes[id]
  IN IF MatchesFootnote(element)
     THEN SetProperties(t, id,
                        StripField(StripField(element.properties, "href"), "id"))
     ELSE t

\* Lines 335-353 without the test that the child is an image.
ImageLinkVisitor_AnyChild(t, id, at, parent) ==
  LET element == t.nodes[id]
  IN IF /\ element.tagName = "a"
        /\ Prop(element.properties, "target") = Str(<<"_blank">>)
        /\ Len(element.children) = 1
     THEN SetProperties(
            SetChildren(t, parent,
                        [t.nodes[parent].children EXCEPT
                           ![at] = element.children[1]]),
            id,
            DeleteProp(DeleteProp(element.properties, "target"), "rel"))
     ELSE t

\* Lines 335-353.  The properties are deleted on the anchor, which is no
\* longer in the tree.
ImageLinkVisitor(t, id, at, parent) ==
  LET element == t.nodes[id]
  IN IF /\ element.tagName = "a"
        /\ Prop(element.properties, "target") = Str(<<"_blank">>)
        /\ Len(element.children) = 1
        /\ t.nodes[element.children[1]].type = "element"
        /\ t.nodes[element.children[1]].tagName = "img"
     THEN SetProperties(
            SetChildren(t, parent,
                        [t.nodes[parent].children EXCEPT
                           ![at] = element.children[1]]),
            id,
            DeleteProp(DeleteProp(element.properties, "target"), "rel"))
     ELSE t

\* /^\s*max-width:\s*100%;?\s*$/.test(style)
MatchesMaxWidth(s) ==
  LET name == TrimStart(s)
      amount == IF name = <<>> THEN <<>> ELSE TrimStart(Tail(name))
      after == IF amount = <<>> THEN <<>> ELSE Tail(amount)
      rest == IF after # <<>> /\ after[1] = ";" THEN Tail(after) ELSE after
  IN /\ name # <<>>
     /\ name[1] = "max-width:"
     /\ amount # <<>>
     /\ amount[1] = "100%"
     /\ TrimStart(rest) = <<>>

\* Lines 365-376.
ImageStyleVisitor(t, id, at, parent) ==
  LET element == t.nodes[id]
  IN IF /\ element.tagName = "img"
        /\ IsString(Prop(element.properties, "style"))
        /\ MatchesMaxWidth(Tail(element.properties.style))
     THEN SetProperties(t, id, DeleteProp(element.properties, "style"))
     ELSE t

\* Lines 389-401.
LinkRelVisitor(t, id, at, parent) ==
  LET element == t.nodes[id]
  IN IF /\ element.tagName = "a"
        /\ IsArray(Prop(element.properties, "rel"))
        /\ Includes(element.properties.rel, "nofollow")
     THEN SetProperties(t, id, DeleteProp(element.properties, "rel"))
     ELSE t

\* Lines 413-421.
TableVisitor(t, id, at, parent) ==
  LET node == t.nodes[id]
  IN IF node.tagName = "markdown-accessiblity-table"
     THEN SetChildren(t, parent,
                      Splice(t.nodes[parent].children, at, 1, node.children))
     ELSE t

\* matches('ul.contains-task-list, li.task-list-item,
\* input.task-list-item-checkbox', element)
MatchesTasklist(element) ==
  \/ element.tagName = "ul" /\ HasClass(element, "contains-task-list")
  \/ element.tagName = "li" /\ HasClass(element, "task-list-item")
  \/ element.tagName = "input" /\ HasClass(element, "task-list-item-checkbox")

\* Lines 432-451.
TasklistVisitor(t, id, at, parent) ==
  LET element == t.nodes[id]
      unclassed == DeleteProp(element.properties, "className")
  IN IF MatchesTasklist(element)
     THEN SetProperties(t, id,
            IF element.tagName = "input" THEN DeleteProp(unclassed, "id")
            ELSE unclassed)
     ELSE t

\* Lines 463-478: properties = {href}.
UserMentionVisitor(t, id, at, parent) ==
  LET element == t.nodes[id]
  IN IF element.tagName = "a" /\ HasClass(element, "user-mention")
     THEN SetProperties(t, id,
                        [href |-> Prop(element.properties, "href")])
     ELSE t

---------------------------------------------------------------------------
(* visit(tree, 'element', visitor): the visitor is called on an element    *)
(* with the position it has in its parent at that moment; then the         *)
(* children the element has then are traversed, whether or not the visitor *)
(* took the element out of its parent; then the traversal goes on at the   *)
(* next position of the parent's children as they are then.                *)

Visitor(rule, t, id, at, parent) ==
  CASE rule = "cleanMarkupAnchor" -> AnchorVisitor(t, id, at, parent)
    [] rule = "cleanMarkupCamoImage" -> CamoImageVisitor(t, id, at, parent)
    [] rule = "cleanMarkupIssue" -> IssueVisitor(t, id, at, parent)
    [] rule = "cleanMarkupDir" -> DirVisitor(t, id, at, parent)
    [] rule = "cleanMarkupFootnoteIdHash" ->
         FootnoteIdHashVisitor(t, id, at, parent)
    [] rule = "cleanMarkupImageLink" -> ImageLinkVisitor(t, id, at, parent)
    [] rule = "cleanMarkupImageStyle" -> ImageStyleVisitor(t, id, at, parent)
    [] rule = "cleanMarkupLinkRel" -> LinkRelVisitor(t, id, at, parent)
    [] rule = "cleanMarkupTable" -> TableVisitor(t, id, at, parent)
    [] rule = "cleanMarkupTasklist" -> TasklistVisitor(t, id, at, parent)
    [] rule = "cleanMarkupUserMention" -> UserMentionVisitor(t, id, at, parent)

RECURSIVE VisitNode(_, _, _, _)
RECURSIVE VisitChildren(_, _, _, _)

VisitNode(t, id, parent, rule) ==
  LET visited == IF t.nodes[id].type = "element"
                 THEN Visitor(rule, t, id, IndexOf(t, parent, id), parent)
                 ELSE t
  IN IF visited.error # "" THEN visited
     ELSE VisitChildren(visited, id, 1, rule)

VisitChildren(t, id, offset, rule) ==
  IF offset > Len(t.nodes[id].children) THEN t
  ELSE LET visited == VisitNode(t, t.nodes[id].children[offset], id, rule)
       IN IF visited.error # "" THEN visited
          ELSE VisitChildren(visited, id, offset + 1, rule)

Visit(t, rule) == VisitNode(t, RootOf(t), 0, rule)

RECURSIVE Inside(_, _)
\* The objects of the subtree of id.
Inside(t, id) ==
  {id} \cup UNION {Inside(t, t.nodes[id].children[i]) :
                     i \in DOMAIN t.nodes[id].children}

RECURSIVE ChildPath(_, _, _)
\* id is an element named tags[1] with a child named tags[2] with a child ...
ChildPath(t, id, tags) ==
  /\ t.nodes[id].tagName = tags[1]
  /\ \/ Len(tags) = 1
     \/ \E i \in DOMAIN t.nodes[id].children :
          ChildPath(t, t.nodes[id].children[i], Tail(tags))

FrontmatterPath == <<"table", "tbody", "tr", "td", "div">>

\* Lines 298-324 without the test of what follows the table.
cleanMarkupFrontmatter_AnySecond(t) ==
  LET children == t.nodes[RootOf(t)].children
  IN IF /\ Len(children) > 1
        /\ t.nodes[children[1]].tagName = "markdown-accessiblity-table"
        /\ \E d \in Inside(t, children[1]) : ChildPath(t, d, FrontmatterPath)
     THEN SetChildren(t, RootOf(t), Splice(children, 1, 2, <<>>))
     ELSE t

\* Lines 298-324.
cleanMarkupFrontmatter(t) ==
  LET children == t.nodes[RootOf(t)].children
  IN IF /\ Len(children) > 1
        /\ t.nodes[children[1]].tagName = "markdown-accessiblity-table"
        /\ \E d \in Inside(t, children[1]) : ChildPath(t, d, FrontmatterPath)
        /\ t.nodes[children[2]].type = "text"
        /\ t.nodes[children[2]].value = <<"\n", "\n">>
     THEN SetChildren(t, RootOf(t), Splice(children, 1, 2, <<>>))
     ELSE t

\* transform(tree): the rule named rule run on the tree.
Transform(rule, t) ==
  IF rule = "cleanMarkupFrontmatter" THEN cleanMarkupFrontmatter(t)
  ELSE Visit(t, rule)

RECURSIVE TransformAll(_, _)
\* for (const transform of transforms) transform(tree)
TransformAll(rules, t) ==
  IF rules = <<>> THEN t
  ELSE LET transformed == Transform(Head(rules), t)
       IN IF transformed.error # "" THEN transformed
          ELSE TransformAll(Tail(rules), transformed)

---------------------------------------------------------------------------
(* The options and the list of transforms: lines 493-508.                  *)

Toggles ==
  {"camo", "dir", "frontmatter", "heading", "image", "issue", "link",
   "mention", "table", "tasklist"}

\* keep.toggle is truthy: a toggle the object does not hold is undefined.
Kept(keepOption, toggle) ==
  toggle \in DOMAIN keepOption /\ keepOption[toggle]

\* Lines 496-508 where keep.image removes cleanMarkupImageStyle only.
Transforms_ImageLinkStays(keepOption) ==
  (IF ~Kept(keepOption, "camo") THEN <<"cleanMarkupCamoImage">> ELSE <<>>)
  \o (IF ~Kept(keepOption, "dir") THEN <<"cleanMarkupDir">> ELSE <<>>)
  \o (IF ~Kept(keepOption, "frontmatter")
      THEN <<"cleanMarkupFrontmatter">> ELSE <<>>)
  \o (IF ~Kept(keepOption, "heading") THEN <<"cleanMarkupAnchor">> ELSE <<>>)
  \o (IF ~Kept(keepOption, "image")
      THEN <<"cleanMarkupImageStyle">> ELSE <<>>)
  \o <<"cleanMarkupImageLink">>
  \o (IF ~Kept(keepOption, "issue") THEN <<"cleanMarkupIssue">> ELSE <<>>)
  \o (IF ~Kept(keepOption, "link") THEN <<"cleanMarkupLinkRel">> ELSE <<>>)
  \o (IF ~Kept(keepOption, "mention")
      THEN <<"cleanMarkupUserMention">> ELSE <<>>)
  \o <<"cleanMarkupFootnoteIdHash">>
  \o (IF ~Kept(keepOption, "table") THEN <<"cleanMarkupTable">> ELSE <<>>)
  \o (IF ~Kept(keepOption, "tasklist") THEN <<"cleanMarkupTasklist">> ELSE <<>>)

\* Lines 496-508 where cleanMarkupFootnoteIdHash is pushed under keep.link.
Transforms_FootnoteUnderLink(keepOption) ==
  (IF ~Kept(keepOption, "camo") THEN <<"cleanMarkupCamoImage">> ELSE <<>>)
  \o (IF ~Kept(keepOption, "dir") THEN <<"cleanMarkupDir">> ELSE <<>>)
  \o (IF ~Kept(keepOption, "frontmatter")
      THEN <<"cleanMarkupFrontmatter">> ELSE <<>>)
  \o (IF ~Kept(keepOption, "heading") THEN <<"cleanMarkupAnchor">> ELSE <<>>)
  \o (IF ~Kept(keepOption, "image")
      THEN <<"cleanMarkupImageStyle", "cleanMarkupImageLink">> ELSE <<>>)
  \o (IF ~Kept(keepOption, "issue") THEN <<"cleanMarkupIssue">> ELSE <<>>)
  \o (IF ~Kept(keepOption, "link") THEN <<"cleanMarkupLinkRel">> ELSE <<>>)
  \o (IF ~Kept(keepOption, "mention")
      THEN <<"cleanMarkupUserMention">> ELSE <<>>)
  \o (IF ~Kept(keepOption, "link")
      THEN <<"cleanMarkupFootnoteIdHash">> ELSE <<>>)
  \o (IF ~Kept(keepOption, "table") THEN <<"cleanMarkupTable">> ELSE <<>>)
  \o (IF ~Kept(keepOption, "tasklist") THEN <<"cleanMarkupTasklist">> ELSE <<>>)

\* Lines 496-508.
Transforms(keepOption) ==
  (IF ~Kept(keepOption, "camo") THEN <<"cleanMarkupCamoImage">> ELSE <<>>)
  \o (IF ~Kept(keepOption, "dir") THEN <<"cleanMarkupDir">> ELSE <<>>)
  \o (IF ~Kept(keepOption, "frontmatter")
      THEN <<"cleanMarkupFrontmatter">> ELSE <<>>)
  \o (IF ~Kept(keepOption, "heading") THEN <<"cleanMarkupAnchor">> ELSE <<>>)
  \o (IF ~Kept(keepOption, "image")
      THEN <<"cleanMarkupImageStyle", "cleanMarkupImageLink">> ELSE <<>>)
  \o (IF ~Kept(keepOption, "issue") THEN <<"cleanMarkupIssue">> ELSE <<>>)
  \o (IF ~Kept(keepOption, "link") THEN <<"cleanMarkupLinkRel">> ELSE <<>>)
  \o (IF ~Kept(keepOption, "mention")
      THEN <<"cleanMarkupUserMention">> ELSE <<>>)
  \o <<"cleanMarkupFootnoteIdHash">>
  \o (IF ~Kept(keepOption, "table") THEN <<"cleanMarkupTable">> ELSE <<>>)
  \o (IF ~Kept(keepOption, "tasklist") THEN <<"cleanMarkupTasklist">> ELSE <<>>)

---------------------------------------------------------------------------
(* toHtml(tree): the markup as a sequence of tokens.  The properties are   *)
(* written in the order of PropertyOrder.                                  *)

PropertyOrder ==
  <<"className", "id", "href", "src", "alt", "type", "disabled", "checked",
    "dir", "rel", "target", "style", "ariaDescribedBy", "dataCanonicalSrc",
    "dataFootnoteRef", "dataHovercardType", "dataHovercardUrl",
    "dataSourcepos">>

AttributeName ==
  [className |-> "class", id |-> "id", href |-> "href", src |-> "src",
   alt |-> "alt", type |-> "type", disabled |-> "disabled",
   checked |-> "checked", dir |-> "dir", rel |-> "rel", target |-> "target",
   style |-> "style", ariaDescribedBy |-> "aria-describedby",
   dataCanonicalSrc |-> "data-canonical-src",
   dataFootnoteRef |-> "data-footnote-ref",
   dataHovercardType |-> "data-hovercard-type",
   dataHovercardUrl |-> "data-hovercard-url",
   dataSourcepos |-> "data-sourcepos"]

\* Elements without content and without closing tag.
VoidNames == {"img", "input", "br", "hr"}

RECURSIVE Join(_)
\* items.join(' ')
Join(items) ==
  IF Len(items) = 0 THEN <<>>
  ELSE IF Len(items) = 1 THEN items
  ELSE <<Head(items), " ">> \o Join(Tail(items))

\* One attribute: nothing for undefined, the name alone for true.
SerializeProperty(properties, key) ==
  LET v == Prop(properties, key)
  IN IF v = Undefined THEN <<>>
     ELSE IF v = True THEN <<" ", AttributeName[key]>>
     ELSE <<" ", AttributeName[key], "=\"">>
            \o (IF IsArray(v) THEN Join(Tail(v)) ELSE Tail(v))
            \o <<"\"">>

RECURSIVE SerializeProperties(_, _)
SerializeProperties(properties, keys) ==
  IF Len(keys) = 0 THEN <<>>
  ELSE IF Len(keys) = 1 THEN SerializeProperty(properties, keys[1])
  ELSE LET half == Len(keys) \div 2
       IN SerializeProperties(properties, SubSeq(keys, 1, half))
            \o SerializeProperties(properties,
                                    SubSeq(keys, half + 1, Len(keys)))

RECURSIVE Serialize(_, _)
RECURSIVE SerializeAll(_, _)

Serialize(t, id) ==
  LET node == t.nodes[id]
  IN IF node.type = "text" THEN node.value
     ELSE IF node.type = "root" THEN SerializeAll(t, node.children)
     ELSE <<"<", node.tagName>>
            \o SerializeProperties(node.properties, PropertyOrder)
            \o <<">">>
            \o (IF node.tagName \in VoidNames THEN <<>>
                ELSE SerializeAll(t, node.children)
                       \o <<"</", node.tagName, ">">>)

SerializeAll(t, ids) ==
  IF ids = <<>> THEN <<>>
  ELSE Serialize(t, Head(ids)) \o SerializeAll(t, Tail(ids))

\* toHtml(tree, settings.toHtml)
ToHtml(t) == Serialize(t, RootOf(t))

\* Lines 720-722 without the test for the empty string.
EndInNewline_EmptyToo(clean) ==
  IF Len(clean) = 0 \/ Last(clean) # "\n" THEN Append(clean, "\n") ELSE clean

\* Lines 720-722: if (clean && !/\n$/.test(clean)) clean += '\n'
EndInNewline(clean) ==
  IF Len(clean) > 0 /\ Last(clean) # "\n" THEN Append(clean, "\n") ELSE clean

---------------------------------------------------------------------------
(* The fragments the rules are run on: every fragment of at most MaxNodes  *)
(* nodes over the elements and texts of one family, as far as the parser   *)
(* can return it (an element without content has no children, two texts    *)
(* are never adjacent, no anchor is inside an anchor).  A family holds the *)
(* markup one group of rules is about; a leaf of a family (a text, an       *)
(* image, a whole table) counts as one node.                               *)

\* The number of nodes of a fragment, at most.
MaxNodes == 3

\* 32 hexadecimal digits.
Hash == [i \in 1..HashLen |-> IF i % 2 = 0 THEN "a" ELSE "1"]

Camo == Str(<<"https://camo.githubusercontent.com/", "7", "0">>)

Shape(tagName, properties) == [tagName |-> tagName, properties |-> properties]

\* <table><tbody><tr><td>cell</td></tr></tbody></table>
TableOf(cell) ==
  Element("table", NoProperties,
    <<Element("tbody", NoProperties,
        <<Element("tr", NoProperties,
            <<Element("td", NoProperties, <<cell>>)>>)>>)>>)

\* The table GH renders from frontmatter, in its wrapper.
FrontmatterTable ==
  Element("markdown-accessiblity-table", NoProperties,
    <<TableOf(Element("div", NoProperties, <<Text(<<"b">>)>>))>>)

TableFamily ==
  [shapes |-> {Shape("markdown-accessiblity-table", NoProperties),
               Shape("blockquote", NoProperties)},
   leaves |-> {Text(<<"x">>), Text(<<"\n", "\n">>), FrontmatterTable,
               TableOf(Text(<<"c">>))}]

IssueFamily ==
  [shapes |->
     {Shape("a", [className |-> List(<<"issue-link", "js-issue-link">>),
                  dataHovercardType |-> Str(<<"pull_request">>),
                  dataHovercardUrl |-> Str(<<"/pull/1/hovercard">>),
                  href |-> Str(<<"https://github.com/pull/1">>)]),
      Shape("a", [dataHovercardType |-> Str(<<"issue">>),
                  dataHovercardUrl |-> Str(<<"/issues/7/hovercard">>),
                  href |-> Str(<<"https://github.com/issues/7">>)]),
      Shape("a", [className |-> List(<<"user-mention", "issue-link">>),
                  dataHovercardType |-> Str(<<"user">>),
                  href |-> Str(<<"https://github.com/wooorm">>)]),
      Shape("p", NoProperties)},
   leaves |-> {Text(<<"x">>)}]

ImageFamily ==
  [shapes |->
     {Shape("a", [target |-> Str(<<"_blank">>),
                  rel |-> List(<<"noopener", "noreferrer">>),
                  href |-> Camo]),
      Shape("a", [rel |-> List(<<"nofollow">>),
                  href |-> Str(<<"https://bravo.com">>)]),
      Shape("p", [dir |-> Str(<<"auto">>)])},
   leaves |->
     {Element("img", [src |-> Camo,
                      dataCanonicalSrc |-> Str(<<"https://bravo.com">>),
                      alt |-> Str(<<"alpha">>),
                      style |-> Str(<<"max-width:", " ", "100%", ";">>)],
              <<>>),
      Element("img", [src |-> Str(<<"lima">>),
                      style |-> Str(<<"max-width:", " ", "50%", ";">>)],
              <<>>),
      Text(<<"x">>)}]

FootnoteFamily ==
  [shapes |->
     {Shape("a", [href |-> Str(<<"#", "user-content-fn", "-", "1", "-">>
                                 \o Hash),
                  id |-> Str(<<"user-content-fn", "ref", "-", "1", "-">>
                               \o Hash),
                  dataFootnoteRef |-> Str(<<>>),
                  ariaDescribedBy |-> List(<<"footnote-label">>),
                  rel |-> List(<<"nofollow">>)]),
      Shape("li", [id |-> Str(<<"user-content-fn", "-", "1", "-">> \o Hash),
                   className |-> List(<<"task-list-item">>),
                   dir |-> Str(<<"auto">>)]),
      Shape("ul", [className |-> List(<<"contains-task-list">>),
                   id |-> Str(<<"user-content-fn", "-", "2", "-">> \o Hash),
                   dataSourcepos |-> Str(<<"1:1-2:7">>)]),
      Shape("a", [className |-> List(<<"data-footnote-backref",
                                       "user-mention">>),
                  href |-> Str(<<"#", "user-content-fn", "ref", "-", "1">>)])},
   leaves |->
     {Element("input", [type |-> Str(<<"checkbox">>),
                        id |-> Str(<<>>),
                        disabled |-> True,
                        className |-> List(<<"task-list-item-checkbox">>)],
              <<>>),
      Text(<<"x">>),
      Text(<<"\n">>)}]

HeadingFamily ==
  [shapes |->
     {Shape("div", [className |-> List(<<"markdown-heading">>),
                    dir |-> Str(<<"auto">>)]),
      Shape("h1", [className |-> List(<<"heading-element">>)]),
      Shape("h2", [className |-> List(<<"heading-element", "x">>),
                   dir |-> Str(<<"auto">>)])},
   leaves |->
     {Element("a", [className |-> List(<<"anchor">>),
                    id |-> Str(<<"user-content-a">>),
                    href |-> Str(<<"#", "a">>)],
              <<>>),
      Text(<<"a">>)}]

Families ==
  {TableFamily, IssueFamily, ImageFamily, FootnoteFamily, HeadingFamily}

RECURSIVE HasAnchor(_)
\* An anchor is in the subtree.
HasAnchor(node) ==
  \/ node.tagName = "a"
  \/ \E i \in DOMAIN node.children : HasAnchor(node.children[i])

\* The parser can return these children below an element named tagName.
Parsed(tagName, children) ==
  /\ tagName \in VoidNames => children = <<>>
  /\ \A i \in 1..(Len(children) - 1) :
       ~(children[i].type = "text" /\ children[i + 1].type = "text")
  /\ tagName = "a" => \A i \in DOMAIN children : ~HasAnchor(children[i])

RECURSIVE Forests(_, _)

\* The trees of the family with at most n nodes.
Trees(family, n) ==
  family.leaves \cup
    UNION {{Element(s.tagName, s.properties, below) :
              below \in {b \in Forests(family, n - 1) : Parsed(s.tagName, b)}} :
           s \in family.shapes}

\* The sequences of trees of the family with at most n nodes in all.
Forests(family, n) ==
  IF n = 0 THEN {<<>>}
  ELSE {<<>>} \cup
       UNION {{<<first>> \o rest :
                 first \in Trees(family, size),
                 rest \in Forests(family, n - size)} :
              size \in 1..n}

Fragments ==
  UNION {{f \in Forests(family, MaxNodes) : Parsed("", f)} :
           family \in Families}


---------------------------------------------------------------------------
(* The cleaning of one source on its own: lines 493-508 build the list of  *)
(* transforms from the options, lines 712-722 parse the rendering, run the *)
(* transforms and serialize.  Every fragment is cleaned under the default  *)
(* options and under each single toggle, and one fragment under every      *)
(* value of keep.                                                          *)

\* keep: an object that holds some toggles as true, or all as booleans.
KeepValues ==
  {<<>>}
    \cup {[toggle \in held |-> TRUE] : held \in (SUBSET Toggles) \ {{}}}
    \cup [Toggles -> BOOLEAN]

\* keep with at most one toggle.
SingleKeeps == {<<>>} \cup {[toggle \in {only} |-> TRUE] : only \in Toggles}

\* <ul class="contains-task-list" data-sourcepos="1:1-2:7">x</ul>
SampleFragment ==
  <<Element("ul", [className |-> List(<<"contains-task-list">>),
                   dataSourcepos |-> Str(<<"1:1-2:7">>)],
            <<Text(<<"x">>)>>)>>

InitClean ==
  /\ numFound = 0
  /\ outputExists = [o \in OutputUrls |-> FALSE]
  /\ mtime = [o \in OutputUrls |-> 0]
  /\ run = 0
  /\ pc = "idle"
  /\ error = ""
  /\ UPDATE = Unset
  /\ allInput = <<>>
  /\ input = <<>>
  /\ files = <<>>
  /\ filenameToIndex = <<>>
  /\ gistResult = None
  /\ ghToken = None
  /\ index = -1
  /\ inFlight = {}
  /\ events = <<>>
  /\ document = None
  /\ fileResults = <<>>
  /\ commentResults = <<>>
  /\ fileIndex = -1
  /\ commentIndex = -1
  /\ TasksIdle
  /\ \/ keep \in SingleKeeps /\ html \in Fragments
     \/ keep \in KeepValues /\ html = SampleFragment
  /\ transforms = <<>>
  /\ tree = [nodes |-> <<>>, error |-> ""]
  /\ cleaned = None
  /\ cpc = "start"

mainVars ==
  <<numFound, outputExists, mtime, run, pc, error, UPDATE, allInput, input,
    files, filenameToIndex, gistResult, ghToken, index, inFlight, events,
    document, fileResults, commentResults, fileIndex, commentIndex, pending,
    values>>

\* Lines 493-508.
BuildTransforms ==
  /\ cpc = "start"
  /\ transforms' = Transforms(keep)
  /\ cpc' = "built"
  /\ UNCHANGED <<mainVars, keep, html, tree, cleaned>>

\* Lines 712-722 for one source.  An exception thrown by a transform leaves
\* the function before anything is serialized.
CleanOutput ==
  /\ cpc = "built"
  /\ tree' = TransformAll(transforms, FromHtml(html))
  /\ IF tree'.error = ""
     THEN /\ cleaned' = Some(EndInNewline(ToHtml(tree')))
          /\ cpc' = "written"
     ELSE /\ cleaned' = None
          /\ cpc' = "threw"
  /\ UNCHANGED <<mainVars, keep, transforms, html>>

NextClean == BuildTransforms \/ CleanOutput

SpecClean == InitClean /\ [][NextClean]_vars


---------------------------------------------------------------------------
(* Claims about the list of transforms and the written string.             *)

RegistrationOrder ==
  <<"cleanMarkupCamoImage", "cleanMarkupDir", "cleanMarkupFrontmatter",
    "cleanMarkupAnchor", "cleanMarkupImageStyle", "cleanMarkupImageLink",
    "cleanMarkupIssue", "cleanMarkupLinkRel", "cleanMarkupUserMention",
    "cleanMarkupFootnoteIdHash", "cleanMarkupTable", "cleanMarkupTasklist">>

\* The toggle that removes each rule; no toggle names the footnote rule.
ToggleOf ==
  [cleanMarkupCamoImage |-> "camo", cleanMarkupDir |-> "dir",
   cleanMarkupFrontmatter |-> "frontmatter", cleanMarkupAnchor |-> "heading",
   cleanMarkupImageStyle |-> "image", cleanMarkupImageLink |-> "image",
   cleanMarkupIssue |-> "issue", cleanMarkupLinkRel |-> "link",
   cleanMarkupUserMention |-> "mention", cleanMarkupFootnoteIdHash |-> "",
   cleanMarkupTable |-> "table", cleanMarkupTasklist |-> "tasklist"]

\* The toggle of the rule is not truthy in keep.
Active(rule) == ~(ToggleOf[rule] \in DOMAIN keep /\ keep[ToggleOf[rule]])

TransformsBuilt == cpc \in {"built", "written", "threw"}

\* C16: for every value of keep the list of transforms is the registration
\* order without the rules of the truthy toggles: a toggle removes its own
\* rule (image removes both image rules) and no other, a toggle that is
\* unset or false removes nothing, and the order of the rest is unchanged.
C16_TransformsFollowKeep ==
  TransformsBuilt => transforms = SelectSeq(RegistrationOrder, Active)

\* keep = {image: true, table: false}-like: image is set, camo is not held.
C16_Witness ==
  /\ cpc = "built"
  /\ "image" \in DOMAIN keep /\ keep["image"]
  /\ "table" \in DOMAIN keep /\ ~keep["table"]
  /\ "heading" \in DOMAIN keep /\ keep["heading"]
  /\ transforms =
       <<"cleanMarkupCamoImage", "cleanMarkupDir", "cleanMarkupFrontmatter",
         "cleanMarkupIssue", "cleanMarkupLinkRel", "cleanMarkupUserMention",
         "cleanMarkupFootnoteIdHash", "cleanMarkupTable",
         "cleanMarkupTasklist">>

\* C19: the string that is written is the serialized cleaned tree, with one
\* newline appended exactly when the serialization is not empty and does not
\* end in a newline.
C19_WrittenEndsInNewline ==
  cpc = "written" =>
    LET serialized == ToHtml(tree)
    IN /\ tree = TransformAll(transforms, FromHtml(html))
       /\ IsSome(cleaned)
       /\ IF serialized = <<>> THEN Get(cleaned) = <<>>
          ELSE IF Last(serialized) = "\n" THEN Get(cleaned) = serialized
          ELSE Get(cleaned) = serialized \o <<"\n">>

\* A rule changed the tree, its serialization ends in ">" and is written
\* with one newline behind it.
C19_Witness ==
  /\ cpc = "written"
  /\ FragmentOf(tree) # html
  /\ ToHtml(tree) # <<>>
  /\ Last(ToHtml(tree)) = ">"
  /\ cleaned = Some(ToHtml(tree) \o <<"\n">>)

\* An element with data-sourcepos that is reachable in the tree.
CarriesSourcepos(t) ==
  \E id \in Inside(t, RootOf(t)) :
    /\ t.nodes[id].type = "element"
    /\ Prop(t.nodes[id].properties, "dataSourcepos") # Undefined

\* The tree as cleanMarkupFootnoteIdHash finds it.
BeforeFootnote ==
  LET before == CHOOSE i \in DOMAIN transforms :
                  transforms[i] = "cleanMarkupFootnoteIdHash"
  IN TransformAll(SubSeq(transforms, 1, before - 1), FromHtml(html))

\* The footnote rule has run on the tree: every element it matches has lost
\* the hash at the end of href and id.
FootnoteApplied ==
  LET found == BeforeFootnote
  IN \A id \in Inside(found, RootOf(found)) :
       (found.nodes[id].type = "element" /\ MatchesFootnote(found.nodes[id]))
         => \A field \in {"href", "id"} :
              LET value == Prop(found.nodes[id].properties, field)
              IN IsString(value) =>
                   Prop(tree.nodes[id].properties, field)
                     = Str(StripHash(Tail(value)))

---------------------------------------------------------------------------
(* Claims about the rules as functions of the tree.                        *)

\* The transforms run once more on the tree they left.
CleanedAgain == TransformAll(transforms, tree)

\* C14: for every fragment and every value of keep, running the list of
\* transforms twice in a row leaves the same tree as running it once.
C14_Idempotent ==
  cpc = "written" =>
    /\ CleanedAgain.error = ""
    /\ FragmentOf(CleanedAgain) = FragmentOf(tree)


\* The two rules leave the same tree (or both throw) in either order.
Commute(first, second, fragment) ==
  LET one == TransformAll(<<first, second>>, FromHtml(fragment))
      other == TransformAll(<<second, first>>, FromHtml(fragment))
  IN /\ one.error = other.error
     /\ one.error = "" => FragmentOf(one) = FragmentOf(other)

\* The fragment has been cleaned under the default options.
CleanedByDefault == cpc \in {"written", "threw"} /\ keep = <<>>

\* C15 as stated: on every fragment every two rules leave the same tree in
\* either order.
C15_OrderInsensitive ==
  CleanedByDefault =>
    \A first, second \in Range(RegistrationOrder) :
      Commute(first, second, html)

\* The rules that delete one attribute that no other rule reads.
AttributeRules ==
  {"cleanMarkupDir", "cleanMarkupImageStyle", "cleanMarkupLinkRel"}

\* C15, amended: on every fragment each of cleanMarkupDir,
\* cleanMarkupImageStyle and cleanMarkupLinkRel leaves the same tree before
\* or after any other rule.
C15_AttributeRulesCommute ==
  CleanedByDefault =>
    \A first \in AttributeRules, second \in Range(RegistrationOrder) :
      Commute(first, second, html)

\* A list item lost dir="auto" to cleanMarkupDir and its class to
\* cleanMarkupTasklist.
C15_Witness ==
  /\ cpc = "written"
  /\ keep = <<>>
  /\ \E id \in Inside(tree, RootOf(tree)) :
       /\ tree.nodes[id].tagName = "li"
       /\ FromHtml(html).nodes[id].properties.dir = Str(<<"auto">>)
       /\ HasClass(FromHtml(html).nodes[id], "task-list-item")
       /\ Prop(tree.nodes[id].properties, "dir") = Undefined
       /\ Prop(tree.nodes[id].properties, "className") = Undefined


---------------------------------------------------------------------------
(* Claim about the mode of a source.                                       *)

\* The last dot-separated segment of the name without its extension.
LastStemSegment(name) == name[Len(name) - 1]

\* C20: the mode of a source is comment exactly when the last segment of
\* the stem of its file name is comment, and file otherwise: without a mode
\* segment, with file, with any other segment, with comment further left.
C20_ModeFromLastSegment ==
  /\ \A i \in DOMAIN allInput :
       /\ allInput[i].mode \in {"comment", "file"}
       /\ allInput[i].mode = "comment"
            <=> LastStemSegment(FileName(allInput[i].inputUrl)) = "comment"
  /\ \A i \in DOMAIN input :
       input[i].mode = "comment"
         <=> LastStemSegment(FileName(input[i].inputUrl)) = "comment"
  /\ \A n \in DOMAIN NameTable :
       ModeOf(FileName(n)) = "comment"
         <=> LastStemSegment(FileName(n)) = "comment"

\* a.md and comment.d.md were found in file mode, b.comment.md and
\* c.offline.comment.md in comment mode.
C20_Witness ==
  /\ Len(allInput) >= 4
  /\ FileName(allInput[1].inputUrl) = <<"a", "md">>
  /\ allInput[1].mode = "file"
  /\ FileName(allInput[4].inputUrl) = <<"comment", "d", "md">>
  /\ allInput[4].mode = "file"
  /\ allInput[2].mode = "comment"
  /\ allInput[3].mode = "comment"
  /\ \E i \in DOMAIN input : input[i].mode = "comment"
  /\ \E i \in DOMAIN input : input[i].mode = "file"


---------------------------------------------------------------------------
(* Claims about single rules.  A rule is run on the parsed fragment of a   *)
(* source that was cleaned, and its result is compared with the rewrite    *)
(* the claim describes, written on the fragment itself.                    *)

\* The rule run alone on the fragment of the state.
RuleAlone(rule) == Transform(rule, FromHtml(html))

\* The objects that hang in the tree.
Attached(t) == Inside(t, RootOf(t))

\* A heading wrapper whose first child is a heading with the class
\* heading-element and whose second child is an element with the class anchor.
IsHeadingWrapper(node) ==
  /\ node.type = "element"
  /\ node.tagName = "div"
  /\ HasClass(node, "markdown-heading")
  /\ Len(node.children) >= 2
  /\ node.children[1].type = "element"
  /\ node.children[1].tagName \in HeadingNames
  /\ HasClass(node.children[1], "heading-element")
  /\ node.children[2].type = "element"
  /\ HasClass(node.children[2], "anchor")

\* The heading without the token heading-element in its class list.
WithoutHeadingToken(heading) ==
  LET rest == SelectSeq(Tail(heading.properties.className), NotHeadingElement)
  IN [heading EXCEPT
        !.properties =
           IF rest = <<>>
           THEN [k \in DOMAIN heading.properties \ {"className"} |->
                   heading.properties[k]]
           ELSE [heading.properties EXCEPT !.className = List(rest)]]

RECURSIVE UnwrapHeadings(_)
\* Every heading wrapper of the subtree replaced by its heading.
UnwrapHeadings(node) ==
  IF IsHeadingWrapper(node)
  THEN UnwrapHeadings(WithoutHeadingToken(node.children[1]))
  ELSE [node EXCEPT !.children = [i \in DOMAIN node.children |->
                                    UnwrapHeadings(node.children[i])]]

\* The serialization of a fragment.
Markup(fragment) == ToHtml(FromHtml(fragment))

\* C21: cleanMarkupAnchor replaces every heading wrapper by its heading
\* without the token heading-element (without class when no token is left),
\* drops the anchor and the further children, and leaves every other
\* wrapper, and everything else, as it is.
C21_HeadingWrappersUnwrapped ==
  CleanedByDefault =>
    LET after == RuleAlone("cleanMarkupAnchor")
    IN /\ after.error = ""
       /\ Markup(FragmentOf(after)) = Markup(UnwrapHeadings(Root(html)).children)

\* As C21, for the fragments on which the rule does not throw.
C21_UnlessThrown ==
  CleanedByDefault =>
    LET after == RuleAlone("cleanMarkupAnchor")
    IN after.error = "" =>
         Markup(FragmentOf(after)) = Markup(UnwrapHeadings(Root(html)).children)


\* A string that ends in a hyphen and 32 lowercase hexadecimal digits.
EndsInHash(s) ==
  /\ Len(s) > HashLen
  /\ s[Len(s) - HashLen] = "-"
  /\ \A i \in (Len(s) - HashLen + 1)..Len(s) : s[i] \in HexDigits

\* An anchor with a footnote-ref marker, an anchor with the footnote-backref
\* class, or a list item whose id starts with the footnote-id prefix.
IsFootnoteElement(node) ==
  /\ node.type = "element"
  /\ \/ node.tagName = "a" /\ "dataFootnoteRef" \in DOMAIN node.properties
     \/ node.tagName = "a" /\ HasClass(node, "data-footnote-backref")
     \/ /\ node.tagName = "li"
        /\ "id" \in DOMAIN node.properties
        /\ IsString(node.properties.id)
        /\ Len(node.properties.id) > Len(FootnotePrefix)
        /\ \A i \in DOMAIN FootnotePrefix :
             node.properties.id[i + 1] = FootnotePrefix[i]

RECURSIVE WithoutFootnoteHashes(_)
\* The subtree with the hash taken from the href and id of footnote elements.
WithoutFootnoteHashes(node) ==
  [node EXCEPT
     !.properties =
        [k \in DOMAIN node.properties |->
           IF /\ IsFootnoteElement(node)
              /\ k \in {"href", "id"}
              /\ IsString(node.properties[k])
              /\ EndsInHash(Tail(node.properties[k]))
           THEN Str(SubSeq(Tail(node.properties[k]), 1,
                           Len(node.properties[k]) - 1 - HashLen - 1))
           ELSE node.properties[k]],
     !.children = [i \in DOMAIN node.children |->
                     WithoutFootnoteHashes(node.children[i])]]

\* C22: cleanMarkupFootnoteIdHash takes a trailing hyphen and 32 hexadecimal
\* digits from the string href and id of every footnote reference, footnote
\* backreference and footnote list item, and changes nothing else.
C22_FootnoteHashesStripped ==
  CleanedByDefault =>
    LET after == RuleAlone("cleanMarkupFootnoteIdHash")
    IN /\ after.error = ""
       /\ FragmentOf(after) = WithoutFootnoteHashes(Root(html)).children

\* A written tree holds a footnote list item whose id lost its hash, next to
\* or inside an element that is no footnote element and kept its hash.
C22_Witness ==
  /\ cpc = "written"
  /\ keep = <<>>
  /\ \E i \in DOMAIN html :
       /\ html[i].tagName = "li"
       /\ html[i].properties.id = Str(<<"user-content-fn", "-", "1", "-">> \o Hash)
  /\ \E id \in Attached(tree) :
       /\ tree.nodes[id].tagName = "li"
       /\ tree.nodes[id].properties.id = Str(<<"user-content-fn", "-", "1">>)
  /\ \E id \in Attached(tree) :
       /\ tree.nodes[id].tagName = "ul"
       /\ EndsInHash(Tail(tree.nodes[id].properties.id))


RECURSIVE StartsPath(_, _)
\* node is the first element of a chain of children with the names of path.
StartsPath(node, path) ==
  /\ node.type = "element"
  /\ node.tagName = Head(path)
  /\ \/ Len(path) = 1
     \/ \E i \in DOMAIN node.children : StartsPath(node.children[i], Tail(path))

RECURSIVE ContainsPath(_, _)
\* A descendant of node starts the path.
ContainsPath(node, path) ==
  \E i \in DOMAIN node.children :
    \/ StartsPath(node.children[i], path)
    \/ ContainsPath(node.children[i], path)

\* The fragment starts with a table rendered from frontmatter, followed by a
\* text of exactly two newlines.
StartsWithFrontmatter(fragment) ==
  /\ Len(fragment) >= 2
  /\ fragment[1].type = "element"
  /\ fragment[1].tagName = "markdown-accessiblity-table"
  /\ ContainsPath(fragment[1], <<"table", "tbody", "tr", "td", "div">>)
  /\ fragment[2].type = "text"
  /\ fragment[2].value = <<"\n", "\n">>

\* C23: cleanMarkupFrontmatter removes the first two top-level nodes exactly
\* when the first is a frontmatter table wrapper and the second a text of two
\* newlines; otherwise the children of the root stay as they are, and the
\* nodes after the second always stay.
C23_FrontmatterRemoved ==
  CleanedByDefault =>
    LET after == RuleAlone("cleanMarkupFrontmatter")
    IN /\ after.error = ""
       /\ FragmentOf(after) =
            IF StartsWithFrontmatter(html)
            THEN SubSeq(html, 3, Len(html))
            ELSE html

\* A source that starts with frontmatter and has a node after it was written
\* with that node only.
C23_Witness ==
  /\ cpc = "written"
  /\ keep = <<>>
  /\ StartsWithFrontmatter(html)
  /\ Len(html) = 3
  /\ Len(tree.nodes[RootOf(tree)].children) = 1

\* A frontmatter table that is the only node, or is followed by something
\* else, was written.
C23_WitnessKept ==
  /\ cpc = "written"
  /\ keep = <<>>
  /\ ~StartsWithFrontmatter(html)
  /\ Len(html) = 2
  /\ html[1] = FrontmatterTable
  /\ Len(tree.nodes[RootOf(tree)].children) = 2


\* The rules that replace an element by its children.
UnwrapRules == {"cleanMarkupIssue", "cleanMarkupTable"}

\* The element is one the unwrap rule replaces.
IsUnwrapTarget(rule, node) ==
  /\ node.type = "element"
  /\ IF rule = "cleanMarkupIssue"
     THEN node.tagName = "a" /\ HasClass(node, "issue-link")
     ELSE node.tagName = "markdown-accessiblity-table"

\* The elements of the tree the unwrap rule replaces.
UnwrapTargets(rule, t) ==
  {id \in Attached(t) : IsUnwrapTarget(rule, t.nodes[id])}

\* C26: after one pass of an unwrap rule (cleanMarkupIssue, cleanMarkupTable)
\* over a fragment, no element the rule replaces is left in the fragment:
\* the traversal goes on at the first inserted child and skips no sibling.
C26_NoTargetRemains ==
  CleanedByDefault =>
    \A rule \in UnwrapRules :
      LET after == RuleAlone(rule)
      IN after.error = "" /\ UnwrapTargets(rule, after) = {}

\* One pass of an unwrap rule took some target away and left another.
C26_TargetLeft ==
  /\ CleanedByDefault
  /\ \E rule \in UnwrapRules :
       LET before == FromHtml(html)
           after == RuleAlone(rule)
       IN /\ UnwrapTargets(rule, after) # {}
          /\ Cardinality(UnwrapTargets(rule, after))
               < Cardinality(UnwrapTargets(rule, before))


\* The properties of an anchor without its hovercard, when the hovercard is
\* one of an issue or a pull request.
WithoutHovercard(node) ==
  IF /\ node.type = "element"
     /\ node.tagName = "a"
     /\ "dataHovercardType" \in DOMAIN node.properties
     /\ node.properties.dataHovercardType
          \in {Str(<<"issue">>), Str(<<"pull_request">>)}
  THEN [k \in DOMAIN node.properties
             \ {"dataHovercardType", "dataHovercardUrl"} |->
          node.properties[k]]
  ELSE node.properties

RECURSIVE StripIssueLinks(_)
\* The children with every a.issue-link replaced by its children and every
\* other anchor to an issue or pull request without its hovercard.
StripIssueLinks(children) ==
  IF children = <<>> THEN <<>>
  ELSE LET node == Head(children)
       IN (IF IsUnwrapTarget("cleanMarkupIssue", node)
           THEN StripIssueLinks(node.children)
           ELSE <<[node EXCEPT !.properties = WithoutHovercard(node),
                               !.children = StripIssueLinks(node.children)]>>)
          \o StripIssueLinks(Tail(children))

\* C27: cleanMarkupIssue replaces every a.issue-link by its children in their
\* order, clears only the hovercard type and url of every other anchor whose
\* hovercard type is issue or pull_request, and leaves other anchors alone.
C27_IssueLinksStripped ==
  CleanedByDefault =>
    LET after == RuleAlone("cleanMarkupIssue")
    IN /\ after.error = ""
       /\ Markup(FragmentOf(after)) = Markup(StripIssueLinks(html))

RECURSIVE HoldsEmptyIssueLink(_)
\* Some a.issue-link of the children has no children.
HoldsEmptyIssueLink(children) ==
  \E i \in DOMAIN children :
    \/ /\ IsUnwrapTarget("cleanMarkupIssue", children[i])
       /\ children[i].children = <<>>
    \/ HoldsEmptyIssueLink(children[i].children)

\* As C27, for the fragments in which every a.issue-link has a child.
C27_UnlessEmpty ==
  (CleanedByDefault /\ ~HoldsEmptyIssueLink(html)) =>
    LET after == RuleAlone("cleanMarkupIssue")
    IN /\ after.error = ""
       /\ Markup(FragmentOf(after)) = Markup(StripIssueLinks(html))


\* An anchor with target _blank.
IsBlankAnchor(node) ==
  /\ node.type = "element"
  /\ node.tagName = "a"
  /\ "target" \in DOMAIN node.properties
  /\ node.properties.target = Str(<<"_blank">>)

\* An anchor with target _blank whose only child is an image.
IsImageLink(node) ==
  /\ IsBlankAnchor(node)
  /\ Len(node.children) = 1
  /\ node.children[1].type = "element"
  /\ node.children[1].tagName = "img"

RECURSIVE UnwrapImageLinks(_)
\* The subtree with the image in the place of every image link.
UnwrapImageLinks(node) ==
  [node EXCEPT
     !.children =
        [i \in DOMAIN node.children |->
           IF IsImageLink(node.children[i])
           THEN node.children[i].children[1]
           ELSE UnwrapImageLinks(node.children[i])]]

\* C28: cleanMarkupImageLink replaces an anchor with target _blank by its
\* child exactly when it has one child and that child is an img; any other
\* such anchor stays in place with its target and rel.
C28_ImageLinksUnwrapped ==
  CleanedByDefault =>
    LET after == RuleAlone("cleanMarkupImageLink")
    IN /\ after.error = ""
       /\ FragmentOf(after) = UnwrapImageLinks(Root(html)).children

\* A written source was an image link: the image took its place.
C28_Witness ==
  /\ cpc = "written"
  /\ keep = <<>>
  /\ Len(html) = 1
  /\ IsImageLink(html[1])
  /\ LET top == tree.nodes[RootOf(tree)].children
     IN Len(top) = 1 /\ tree.nodes[top[1]].tagName = "img"

\* A written source was an anchor with target _blank around a text: it was
\* written with its target and rel.
C28_WitnessKept ==
  /\ cpc = "written"
  /\ keep = <<>>
  /\ Len(html) = 1
  /\ IsBlankAnchor(html[1])
  /\ Len(html[1].children) = 1
  /\ html[1].children[1].type = "text"
  /\ LET top == tree.nodes[RootOf(tree)].children
     IN /\ Len(top) = 1
        /\ tree.nodes[top[1]].tagName = "a"
        /\ Prop(tree.nodes[top[1]].properties, "target") = Str(<<"_blank">>)
        /\ Prop(tree.nodes[top[1]].properties, "rel")
             = List(<<"noopener", "noreferrer">>)


---------------------------------------------------------------------------
(* The order of the requests and writes of one call.                       *)

\* The operations of the log, in order.
Ops(log) == [i \in DOMAIN log |-> log[i].op]

\* n times the operation op.
Repeated(op, n) == [i \in 1..n |-> op]

\* The positions of the log that hold the operation op.
Positions(op) == {i \in DOMAIN events : events[i].op = op}

\* C24: a call that ends well on a non-empty batch has made one container
\* creation, then the posts of all comments, then one fetch, then one
\* deletion, then all writes, and nothing else; at no time is a comment
\* posted after the fetch, an output written before the deletion was
\* answered, or more than one remote request in flight.
C24_ProtocolOrder ==
  /\ Cardinality(inFlight) <= 1
  /\ \A f \in Positions("fetch"), c \in Positions("gists.createComment") :
       c < f
  /\ \A w \in Positions("writeFile") :
       /\ \E d \in Positions("gists.delete") : d < w
       /\ Request("gists.delete", -1) \notin inFlight
  /\ (pc = "done" /\ input # <<>>) =>
       Ops(events) =
         <<"gists.create">>
           \o Repeated("gists.createComment", Len(CommentSources))
           \o <<"fetch", "gists.delete">>
           \o Repeated("writeFile", Len(input))

\* A call ended well after two comment posts and three writes.
C24_Witness ==
  /\ pc = "done"
  /\ Len(input) >= 3
  /\ Cardinality(Positions("gists.createComment")) = 2
  /\ Cardinality(Positions("writeFile")) = Len(input)


---------------------------------------------------------------------------
(* The number of fragments the extraction yields.                          *)

\* The extraction loops have run and the call goes on.
Extracted == pc \in {"write", "done"} /\ IsSome(document)

\* The number of indices of fileResults that hold a fragment.
FilledSlots == Cardinality(DOMAIN fileResults)

\* The slot numbers the .file containers of the page name.
NamedSlots ==
  {ParseInt(Get(MatchReadme(Trim(Get(Get(document).fileNodes[i].name))))) :
     i \in DOMAIN Get(document).fileNodes}

\* The page holds one .file container per submitted entry, each name once,
\* and one comment container per posted comment.
PageComplete ==
  /\ Len(Get(document).fileNodes) = Len(files)
  /\ NamedSlots = 0..(Len(files) - 1)
  /\ Len(Get(document).commentNodes) = Len(CommentSources)

\* C25 as stated: after the extraction of a call that goes on, the number of
\* filled indices of fileResults plus the number of comment fragments is the
\* number of sources of the batch.
C25_FragmentsMatchSources ==
  Extracted => FilledSlots + Len(commentResults) = Len(input)

\* C25, amended: after the extraction of a call that goes on, the filled
\* indices of fileResults are the slot numbers the .file containers name and
\* there is one comment fragment per comment container; when the page holds
\* one container per submitted entry and per posted comment, their number is
\* the number of sources of the batch, plus one (the rendering of the
\* placeholder) when the batch has no file-mode source.
C25_FragmentsMatchContainers ==
  Extracted =>
    /\ DOMAIN fileResults = NamedSlots
    /\ Len(commentResults) = Len(Get(document).commentNodes)
    /\ PageComplete =>
         FilledSlots + Len(commentResults)
           = Len(input) + (IF FileSources = <<>> THEN 1 ELSE 0)

\* The fragments of a complete page were extracted for a batch of file-mode
\* and comment-mode sources: there is one per source.
C25_Witness ==
  /\ Extracted
  /\ PageComplete
  /\ Len(FileSources) >= 2
  /\ Len(CommentSources) >= 1
  /\ FilledSlots + Len(commentResults) = Len(input)

\* The fragments of a complete page were extracted for a batch of
\* comment-mode sources only: there is one more than sources.
C25_WitnessPlaceholder ==
  /\ Extracted
  /\ PageComplete
  /\ FileSources = <<>>
  /\ FilledSlots + Len(commentResults) = Len(input) + 1

\* The fragments of a page that lacks a container were extracted.
C25_WitnessIncomplete ==
  /\ Extracted
  /\ ~PageComplete
  /\ FilledSlots + Len(commentResults) < Len(input)


---------------------------------------------------------------------------
(* Source intake with its promises: lines 512-552.  Each of the two        *)
(* Promise.all calls maps the list to async functions that all start at    *)
(* once; a function runs up to its first await, and the operations awaited *)
(* (fs.access, fs.readFile) are answered in any order.  Promise.all stores *)
(* each value at the index of its promise and resolves when none is        *)
(* pending; it rejects with the first rejection.                           *)

\* The async function of line 513 awaits fs.access for this file.
AwaitsAccess(n, update) == ~IsOffline(FileName(n)) /\ ~Truthy(update)

\* Lines 512-535 up to the first await of every function: the functions of
\* the files that need no access check have returned.
StartChecks ==
  /\ pc = "intake"
  /\ \E update \in UpdateValues :
       /\ UPDATE' = update
       /\ pending' = {n \in 1..numFound : AwaitsAccess(n, update)}
       /\ values' = [n \in 1..numFound |->
                       IF AwaitsAccess(n, update) THEN None
                       ELSE Some(InputInfo(n, update, outputExists))]
  /\ pc' = "checking"
  /\ UNCHANGED <<cleanVars, fsVars, run, error, allInput, input, gistVars,
                 index, inFlight, events, extractVars, writeVars>>

\* fs.access of one file is answered (lines 523-526) and its function
\* returns (lines 529-533).
CheckSettles ==
  /\ pc = "checking"
  /\ \E n \in pending :
       /\ pending' = pending \ {n}
       /\ values' = [values EXCEPT
                       ![n] = Some(InputInfo(n, UPDATE, outputExists))]
  /\ UNCHANGED <<cleanVars, fsVars, run, pc, error, intakeVars, gistVars,
                 index, inFlight, events, extractVars, writeVars>>

\* The first Promise.all resolves; lines 537-552 up to the first await of
\* every function.
StartReads ==
  /\ pc = "checking"
  /\ pending = {}
  /\ LET all == [n \in DOMAIN values |-> Get(values[n])]
     IN /\ allInput' = all
        /\ pending' = DOMAIN Filter(all, IsGenerate)
        /\ values' = [k \in DOMAIN Filter(all, IsGenerate) |-> None]
  /\ pc' = "reading"
  /\ UNCHANGED <<cleanVars, fsVars, run, error, UPDATE, input, gistVars,
                 index, inFlight, events, extractVars, writeVars>>

\* ReadSettles with the value stored behind those that came before.
ReadSettles_Pushed ==
  /\ pc = "reading"
  /\ \E k \in pending :
       LET d == Filter(allInput, IsGenerate)[k]
           at == 1 + Cardinality({j \in DOMAIN values : IsSome(values[j])})
       IN /\ pending' = pending \ {k}
          /\ values' = [values EXCEPT
                          ![at] = Some([inputUrl |-> d.inputUrl,
                                        mode |-> d.mode,
                                        outputUrl |-> d.outputUrl,
                                        value |-> Content(d.inputUrl)])]
  /\ UNCHANGED <<cleanVars, fsVars, run, pc, error, intakeVars, gistVars,
                 index, inFlight, events, extractVars, writeVars>>

\* fs.readFile of one batch member is answered and its function returns
\* (lines 543-549).
ReadSettles ==
  /\ pc = "reading"
  /\ \E k \in pending :
       LET d == Filter(allInput, IsGenerate)[k]
       IN /\ pending' = pending \ {k}
          /\ values' = [values EXCEPT
                          ![k] = Some([inputUrl |-> d.inputUrl,
                                       mode |-> d.mode,
                                       outputUrl |-> d.outputUrl,
                                       value |-> Content(d.inputUrl)])]
  /\ UNCHANGED <<cleanVars, fsVars, run, pc, error, intakeVars, gistVars,
                 index, inFlight, events, extractVars, writeVars>>

\* fs.readFile of one batch member is rejected: Promise.all rejects and the
\* call with it.
ReadRejected ==
  /\ pc = "reading"
  /\ pending # {}
  /\ pc' = "failed"
  /\ error' = "readFile"
  /\ UNCHANGED <<taskVars, cleanVars, fsVars, run, intakeVars, gistVars, index,
                 inFlight, events, extractVars, writeVars>>

\* The second Promise.all resolves; lines 554-557.
EndIntake ==
  /\ pc = "reading"
  /\ pending = {}
  /\ input' = [k \in DOMAIN values |-> Get(values[k])]
  /\ pc' = IF values = <<>> THEN "done" ELSE "create"
  /\ UNCHANGED <<taskVars, cleanVars, fsVars, run, error, UPDATE, allInput,
                 gistVars, index, inFlight, events, extractVars, writeVars>>

NextIntake ==
  \/ StartRun
  \/ StartChecks
  \/ CheckSettles
  \/ StartReads
  \/ ReadSettles
  \/ ReadRejected
  \/ EndIntake

SpecIntake == Init /\ [][NextIntake]_vars

\* The intake of the call has ended well.
IntakeEnded == run > 0 /\ pc \in {"create", "done"}

\* The files of the folder that are to be generated, in discovery order.
Eligible ==
  Filter([n \in 1..numFound |-> n],
         LAMBDA n : Generate(FileName(n), UPDATE, outputExists[OutputUrl(n)]))

\* C30: whatever the order in which the access checks and the reads are
\* answered, the batch is the generate-eligible files in discovery order, so
\* the slot name of a file-mode source and the ordinal of a comment-mode
\* source depend on the discovery order only.
C30_BatchInDiscoveryOrder ==
  IntakeEnded =>
    /\ [k \in DOMAIN input |-> input[k].inputUrl] = Eligible
    /\ \A k \in DOMAIN input :
         /\ input[k].mode = ModeOf(FileName(input[k].inputUrl))
         /\ input[k].outputUrl = OutputUrl(input[k].inputUrl)
         /\ input[k].value = Content(input[k].inputUrl)
    /\ BuildFiles(input) = BuildFiles(ReadInput(allInput))

\* The reads of a batch of three or more were answered out of order: every
\* read but the one of the first member has been answered.
C30_Witness ==
  /\ pc = "reading"
  /\ Len(values) >= 3
  /\ pending = {1}
  /\ \A k \in 2..Len(values) : IsSome(values[k])

\* The intake ended well with a batch of file-mode and comment-mode sources.
C30_WitnessEnded ==
  /\ IntakeEnded
  /\ Len(input) >= 3
  /\ \E k \in DOMAIN input : input[k].mode = "comment"
  /\ \E k \in DOMAIN input : input[k].mode = "file"


---------------------------------------------------------------------------
(* The extraction of comment bodies on pages whose comment containers hold *)
(* any children: lines 638-699.  The .file containers are those of a page  *)
(* that renders every entry; one comment container holds any sequence of   *)
(* whitespace texts, other texts and renderings.                           *)

\* Largest number of children of the comment container that varies.
MaxChildren == 3

\* A whitespace text other than a newline, and a text that is not whitespace.
Blank == <<"text", " ", "\t">>

Word == <<"text", " ", "x">>

\* The sequences of at most n nodes of the set.
SeqsUpTo(nodes, n) == UNION {[1..m -> nodes] : m \in 0..n}

\* The comment containers a page may hold for the posted bodies.
AnyCommentNodes(bodies) ==
  LET good == [i \in DOMAIN bodies |-> CommentNodeOf(bodies[i])]
  IN {good}
     \cup UNION {{[good EXCEPT ![j] = children] :
                    children \in SeqsUpTo({WS, Blank, Word,
                                           Render("comment", bodies[j])},
                                          MaxChildren)} :
                   j \in DOMAIN good}

\* await fetch and response.text(), then the deletion request of line 646,
\* for a page with any comment containers.
FetchPage ==
  /\ pc = "awaitFetch"
  /\ \/ /\ pc' = "failed"
        /\ error' = "fetch rejected"
        /\ inFlight' = inFlight \ {Request("fetch", -1)}
        /\ UNCHANGED <<document, events>>
     \/ \E c \in AnyCommentNodes(PostedBodies(events)) :
          /\ document' = Some([fileNodes |-> [i \in DOMAIN files |->
                                                FileNodeOf(files[i])],
                               commentNodes |-> c])
          /\ inFlight' = (inFlight \ {Request("fetch", -1)})
                            \cup {Request("gists.delete", -1)}
          /\ events' = Append(events, Event("gists.delete", NoTarget, <<>>))
          /\ pc' = "awaitDelete"
          /\ error' = ""
  /\ UNCHANGED <<taskVars, cleanVars, fsVars, run, intakeVars, gistVars, index,
                 fileResults, commentResults, writeVars>>

NextExtract ==
  \/ StartRun
  \/ Intake
  \/ CreateGistRequest
  \/ CreateGistResponse
  \/ CreateCommentRequest
  \/ CreateCommentResponse
  \/ FetchRequest
  \/ FetchPage
  \/ DeleteGistResponse

SpecExtract == Init /\ [][NextExtract]_vars

\* The number of children the trimming takes from the front of a body, and
\* from the back of what is left.
FromFront(children) ==
  IF children # <<>> /\ IsWhitespace(children[1]) THEN 1 ELSE 0

FromBack(children) ==
  IF Len(children) > FromFront(children) /\ IsWhitespace(Last(children))
  THEN 1
  ELSE 0

\* C29: the fragment of a comment container is its children in order without
\* the first child if that is whitespace and without the last of the others
\* if that is whitespace; so a child that is not whitespace is never taken, a
\* body of one whitespace child gives the empty fragment, and a second
\* whitespace child at the front or at the back stays.
C29_CommentBodyTrimmed ==
  (pc = "write" /\ IsSome(document)) =>
    /\ Len(commentResults) = Len(Get(document).commentNodes)
    /\ \A i \in DOMAIN commentResults :
         LET children == Get(document).commentNodes[i]
             fragment == commentResults[i]
             n == Len(children)
         IN /\ fragment = SubSeq(children, 1 + FromFront(children),
                                 n - FromBack(children))
            /\ \A k \in 1..n :
                 ~IsWhitespace(children[k]) =>
                   \E m \in DOMAIN fragment : fragment[m] = children[k]
            /\ (n = 1 /\ IsWhitespace(children[1])) => fragment = <<>>
            /\ (n >= 3 /\ IsWhitespace(children[1]) /\ IsWhitespace(children[2]))
                 => fragment[1] = children[2]
            /\ (n >= 3 /\ IsWhitespace(children[n])
                       /\ IsWhitespace(children[n - 1]))
                 => Last(fragment) = children[n - 1]

\* A body of two whitespace children, a rendering and a whitespace child was
\* extracted: the second whitespace child is the head of the fragment.
C29_Witness ==
  /\ pc = "write"
  /\ IsSome(document)
  /\ \E i \in DOMAIN commentResults :
       LET children == Get(document).commentNodes[i]
       IN /\ Len(children) = 3
          /\ IsWhitespace(children[1])
          /\ IsWhitespace(children[2])
          /\ ~IsWhitespace(children[3])
          /\ commentResults[i] = <<children[2], children[3]>>

\* A body of one whitespace child was extracted as the empty fragment.
C29_WitnessEmpty ==
  /\ pc = "write"
  /\ IsSome(document)
  /\ \E i \in DOMAIN commentResults :
       /\ Get(document).commentNodes[i] = <<Blank>>
       /\ commentResults[i] = <<>>

====
